---- MODULE Spec2Model ----
(***************************************************************************)
(* Chat mention triage of gwsa: get_chat_mentions (gwsa/sdk/chat/triage.py) *)
(* as a state machine.  One scan runs from Start to pc = "done": identity  *)
(* resolution, paginated space discovery, candidate selection, and the     *)
(* per-candidate message walk under the space and message budgets.         *)
(*                                                                         *)
(* Time is counted in whole days.  Python None is None for optional        *)
(* integers and NoId for optional ids and names; an optional text is the   *)
(* empty sequence when absent (None and '' are both falsy in the code).    *)
(* Texts that the code searches or splits are sequences of characters.     *)
(***************************************************************************)
EXTENDS Integers, Sequences, FiniteSets, TLC

\* ---------------------------------------------------------------- bounds
MaxSpaces == 2
MaxMsgs == 2
MaxTiers == 3
MaxSetups == 2
MaxCmds == 2
MaxRefreshes == 3
MaxCacheOps == 3
MaxScans == 2
Now == 30

\* ------------------------------------------------------ program constants
None == -1
NoId == "None"
MinTime == 0
FetchWindow == 20
ImplicitFetch == 1
DefaultThreshold == 3
DefaultDiscoveryLimit == 200
PageSize == 100

ApiMethods == {"_fetch_person_from_api", "_list_spaces", "_list_space_messages", "_list_reactions"}

Tier(m, d) == [max_members |-> m, lookback_days |-> d]

DefaultTiers == << Tier(2, 14), Tier(10, 5), Tier(50, 2), Tier(None, 1) >>

Min(a, b) == IF a <= b THEN a ELSE b

Last(s) == s[Len(s)]

Front(s) == SubSeq(s, 1, Len(s) - 1)

\* ------------------------------------------------------------ pure parts

\* _parse_api_time: a missing timestamp parses to datetime.min
ParseApiTime(timestamp) == IF timestamp = None THEN MinTime ELSE timestamp

\* sort key of line 64: float('inf') for None, else max_members; a <= b on keys
TierKeyLE(a, b) ==
    \/ b.max_members = None
    \/ (a.max_members # None /\ a.max_members <= b.max_members)

RECURSIVE InsertTier(_, _)
InsertTier(t, s) ==
    IF s = << >> THEN << t >>
    ELSE IF TierKeyLE(Head(s), t) THEN << Head(s) >> \o InsertTier(t, Tail(s))
    ELSE << t >> \o s

RECURSIVE StableSortTiers(_)
StableSortTiers(s) ==
    IF s = << >> THEN << >> ELSE InsertTier(Last(s), StableSortTiers(Front(s)))

\* mutant of SortTiers: the list is used in the caller's order
SortTiersUnsorted(ts) == ts

\* tiers.sort(key=...): list.sort is stable
SortTiers(ts) == StableSortTiers(ts)

\* the tier-matching loop: first tier that fits, else lookback 0 / unmatched
RECURSIVE MatchTier(_, _)
MatchTier(ts, members) ==
    IF ts = << >> THEN [matched_tier |-> FALSE, lookback_days |-> 0]
    ELSE IF Head(ts).max_members = None \/ members <= Head(ts).max_members
         THEN [matched_tier |-> TRUE, lookback_days |-> Head(ts).lookback_days]
         ELSE MatchTier(Tail(ts), members)

\* members_count of a discovered space
MembersCount(space) ==
    IF space.membershipCount.present
    THEN (IF space.membershipCount.joinedDirectHumanUserCount = None
          THEN 2 ELSE space.membershipCount.joinedDirectHumanUserCount)
    ELSE IF space.spaceType = "DIRECT_MESSAGE" THEN 2 ELSE 0

\* mutant of IsRecent: a space last active exactly at the cutoff is kept
IsRecentInclusive(last_active, cutoff) == last_active >= cutoff

\* last_active > cutoff
IsRecent(last_active, cutoff) == last_active > cutoff

\* sort priority of a candidate
TypeScore(space, members) ==
    IF space.spaceType = "DIRECT_MESSAGE"
    THEN (IF members <= 2 THEN 0 ELSE 1)
    ELSE 2

MakeCandidate(space, members, lookback) ==
    [space |-> space, members |-> members,
     last_active |-> ParseApiTime(space.lastActiveTime),
     lookback_days |-> lookback, type_score |-> TypeScore(space, members)]

\* key (type_score, members): a <= b
CandKeyLE(a, b) ==
    \/ a.type_score < b.type_score
    \/ (a.type_score = b.type_score /\ a.members <= b.members)

RECURSIVE InsertCand(_, _)
InsertCand(c, s) ==
    IF s = << >> THEN << c >>
    ELSE IF CandKeyLE(Head(s), c) THEN << Head(s) >> \o InsertCand(c, Tail(s))
    ELSE << c >> \o s

\* mutant of SortCands: the candidates stay in listing order
SortCandsUnsorted(s) == s

RECURSIVE SortCands(_)
SortCands(s) ==
    IF s = << >> THEN << >> ELSE InsertCand(Last(s), SortCands(Front(s)))

\* raw_name 'people/<id>' -> 'users/<id>', anything else -> None
ToChatId(raw_name) ==
    CASE raw_name = "people/me" -> "users/me"
      [] raw_name = "people/bob" -> "users/bob"
      [] OTHER -> NoId

\* displayName.split(' ')[0]
RECURSIVE FirstToken(_)
FirstToken(s) ==
    IF s = << >> \/ Head(s) = " " THEN << >> ELSE << Head(s) >> \o FirstToken(Tail(s))

\* pat in text (substring test)
Contains(text, pat) ==
    \E i \in 0..(Len(text) - Len(pat)) : SubSeq(text, i + 1, i + Len(pat)) = pat


\* mutant of FetchLimit: every space is fetched with the full window
FetchLimitAlwaysWindow(is_implicit) == FetchWindow

\* fetch_limit = 1 if is_implicit else 20
FetchLimit(is_implicit) == IF is_implicit THEN ImplicitFetch ELSE FetchWindow

NoItem == [type |-> "None", reason |-> "None"]

\* annotation loop: a USER_MENTION whose user is my_id (needs a known my_id)
AnnotationMentionsMe(m, me) == me # NoId /\ m.mention = me

\* f"@{my_display_name}" in text (needs a known first name)
TextMentionsMe(m, first_name) ==
    first_name # << >> /\ Contains(m.text, << "@" >> \o first_name)

\* mutant of AnalyzeMessage: the "@name" text test is missing
AnalyzeMessageNoText(m, me, first_name, is_implicit, responded) ==
    IF is_implicit
    THEN (IF ~responded THEN [type |-> "Inferred", reason |-> "Unreplied message"]
          ELSE NoItem)
    ELSE IF AnnotationMentionsMe(m, me) /\ ~responded
         THEN [type |-> "Explicit", reason |-> "Explicit mention"]
         ELSE NoItem

\* mutant of AnalyzeMessage: the implicit branch labels its item like the
\* explicit one
AnalyzeMessageOneLabel(m, me, first_name, is_implicit, responded) ==
    IF is_implicit
    THEN (IF ~responded THEN [type |-> "Explicit", reason |-> "Explicit mention"]
          ELSE NoItem)
    ELSE IF (AnnotationMentionsMe(m, me) \/ TextMentionsMe(m, first_name)) /\ ~responded
         THEN [type |-> "Explicit", reason |-> "Explicit mention"]
         ELSE NoItem

\* _analyze_message
AnalyzeMessage(m, me, first_name, is_implicit, responded) ==
    IF is_implicit
    THEN (IF ~responded THEN [type |-> "Inferred", reason |-> "Unreplied message"]
          ELSE NoItem)
    ELSE IF (AnnotationMentionsMe(m, me) \/ TextMentionsMe(m, first_name)) /\ ~responded
         THEN [type |-> "Explicit", reason |-> "Explicit mention"]
         ELSE NoItem

\* mutant of LoopHeadCheck: the message budget is tested first
LoopHeadCheckMessagesFirst(n_stats, total, space_limit, msg_limit) ==
    IF total >= msg_limit THEN "message_limit_reached"
    ELSE IF n_stats >= space_limit THEN "space_limit_reached"
    ELSE "continue"

\* the two budget tests at the head of the candidate loop, in the code's order
LoopHeadCheck(n_stats, total, space_limit, msg_limit) ==
    IF n_stats >= space_limit THEN "space_limit_reached"
    ELSE IF total >= msg_limit THEN "message_limit_reached"
    ELSE "continue"

\* mutant of LoopControl: a message of mine never ends the walk
LoopControlNoBreakOnMe(outcome, unanswered) ==
    IF outcome = "emit" THEN "break" ELSE "continue"

\* mutant of LoopControl: the walk goes on after an item was emitted
LoopControlNoBreakOnEmit(outcome, unanswered) ==
    IF outcome = "me" /\ unanswered THEN "break" ELSE "continue"

\* mutant of LoopControl: a message older than the cutoff ends the walk
LoopControlBreakOnOld(outcome, unanswered) ==
    IF outcome \in {"too_old", "emit"} \/ (outcome = "me" /\ unanswered)
    THEN "break" ELSE "continue"

\* what the message loop does after one iteration
LoopControl(outcome, unanswered) ==
    CASE outcome = "too_old" -> "continue"
      [] outcome = "me" -> (IF unanswered THEN "break" ELSE "continue")
      [] outcome = "none" -> "continue"
      [] outcome = "emit" -> "break"

\* mutant of OnSpaceFailure: the failed space leaves no stats entry
OnSpaceFailureDrops(stats, stat) == stats

\* except branch of the per-space try: the stats entry is still recorded
OnSpaceFailure(stats, stat) == Append(stats, stat)

\* current_space_stat as initialised for a candidate
NewStat(item) ==
    [id |-> item.space.name, members |-> item.members,
     lookback_days |-> item.lookback_days,
     messages_scanned |-> 0, messages_in_range |-> 0,
     mentions_found |-> 0, unanswered_mentions |-> 0]

NoStat ==
    [id |-> 0, members |-> 0, lookback_days |-> 0,
     messages_scanned |-> 0, messages_in_range |-> 0,
     mentions_found |-> 0, unanswered_mentions |-> 0]

NoMsg == [createTime |-> None, sender |-> NoId, mention |-> NoId, text |-> << >>]

\* sender name chain of an emitted item: displayName, People lookup, email
ResolveSender(display_name, lookup, email) ==
    LET n1 == IF display_name # NoId THEN display_name ELSE lookup
        n2 == IF (n1 = NoId \/ n1 = "Unknown") /\ email # NoId THEN email ELSE n1
    IN  IF n2 = NoId THEN "Unknown" ELSE n2

\* ------------------------------------------------------------ input sets

Membership(present, n) == [present |-> present, joinedDirectHumanUserCount |-> n]

Space(type, membership, last_active) ==
    [name |-> 0, spaceType |-> type, membershipCount |-> membership,
     lastActiveTime |-> last_active]

\* spaces of a full scan: a two-person DM without membershipCount, a large
\* space, and a large space that has been quiet for long
ScanSpaces ==
    { Space("DIRECT_MESSAGE", Membership(FALSE, None), Now - 3),
      Space("SPACE", Membership(TRUE, 11), Now - 1),
      Space("SPACE", Membership(TRUE, 11), Now - 20) }

\* spaces of the candidate-selection runs
SelectSpaces ==
    { Space(t, m, a) :
        t \in {"DIRECT_MESSAGE", "GROUP_CHAT", "SPACE"},
        m \in {Membership(FALSE, None), Membership(TRUE, None),
               Membership(TRUE, 2), Membership(TRUE, 3), Membership(TRUE, 11)},
        a \in {None, Now - 20, Now - 14, Now - 5, Now - 3, Now} }

\* spaces of the ordering runs, all active yesterday: a two-person DM, a
\* DIRECT_MESSAGE with three members, a group chat, a large and a small
\* named space
OrderSpaces ==
    { Space("DIRECT_MESSAGE", Membership(FALSE, None), Now - 1),
      Space("DIRECT_MESSAGE", Membership(TRUE, 3), Now - 1),
      Space("GROUP_CHAT", Membership(TRUE, 3), Now - 1),
      Space("SPACE", Membership(TRUE, 11), Now - 1),
      Space("SPACE", Membership(TRUE, 2), Now - 1) }

\* the listing gives every space its own resource name
Named(seq) == [i \in 1..Len(seq) |-> [seq[i] EXCEPT !.name = i]]

SeqsUpTo(S, n) == UNION { [1..k -> S] : k \in 0..n }

TierPool == { Tier(2, 14), Tier(10, 5), Tier(None, 1), Tier(10, 0) }

TiersArg(is_none, list) == [is_none |-> is_none, list |-> list]

\* what get_me() returns: the cached or fetched profile, or {} when the
\* People call fails; fetched tells whether _fetch_person_from_api ran
MeFull == [resourceName |-> "people/me", displayName |-> << "A", "l", " ", "S" >>]
MeNoName == [resourceName |-> "people/me", displayName |-> << >>]
MeEmpty == [resourceName |-> NoId, displayName |-> << >>]

GetMeOutcomes ==
    { [fetched |-> FALSE, me |-> MeFull],
      [fetched |-> TRUE, me |-> MeNoName],
      [fetched |-> TRUE, me |-> MeEmpty] }

MsgAges == {2, 15}

\* USER_MENTION target and text of a message
MentionForms ==
    { [mention |-> NoId, text |-> << "h", "i" >>],
      [mention |-> "users/me", text |-> << "h", "i" >>],
      [mention |-> "users/bob", text |-> << "h", "@", "B", "o" >>],
      [mention |-> NoId, text |-> << "h", "@", "A", "l" >>] }

\* messages of other users in every form, and plain messages of mine
Messages ==
    { [createTime |-> Now - a, sender |-> "users/bob", mention |-> f.mention,
       text |-> f.text] : a \in MsgAges, f \in MentionForms }
    \cup { [createTime |-> Now - a, sender |-> "users/me", mention |-> NoId,
             text |-> << "h", "i" >>] : a \in MsgAges }

\* sender.displayName and sender.email of a message, and what
\* get_person_name answers: a name from the cache, a name from the People
\* API, or "Unknown" after a People call without names or with an error
SenderForms ==
    { [displayName |-> "Bob", email |-> NoId],
      [displayName |-> NoId, email |-> "bob@x"],
      [displayName |-> NoId, email |-> NoId] }

PersonLookups ==
    { [fetched |-> FALSE, name |-> "Bobby"],
      [fetched |-> TRUE, name |-> "Bobby"],
      [fetched |-> TRUE, name |-> "Unknown"] }

\* a workspace whose senders carry a display name or nothing, and whose
\* profile cache holds that same display name
PlainSenders == { [displayName |-> "Bob", email |-> NoId],
                  [displayName |-> NoId, email |-> NoId] }

CachedLookups == { [fetched |-> FALSE, name |-> "Bob"] }

\* src/gwsa/sdk/profiles.py: the token profiles of the bounded store
ProfileNames == { "work", "home" }

ADC_PROFILE_NAME == "adc"

NoFile == 0

\* src/gwsa/sdk/cache.py: the keys of one cache file and the invocations
\* that use it at the same time
CacheKeys == { "me", "bob", "spaces/1" }

Invocations == { 1, 2 }

NoCacheOp == [op |-> "none", key |-> NoId]

NoOutcome == [emitted |-> {}, visited |-> << >>, exit_reason |-> "None"]

NoCmd == [op |-> "none", name |-> NoId, new_name |-> NoId]

\* ------------------------------------------------------------------ state

VARIABLES
    limit, implicit_mention_threshold, tiers_arg, discovery_limit,
    unanswered_only, message_limit,
    remote, page_len, senders, people,
    pc, tiers, api_stats, my_id, my_display_name,
    all_spaces, page_token,
    fi, members_count, lookback_days, candidates,
    results, space_stats, total_messages_scanned, exit_reason,
    ci, current_space_stat, n_messages, mi, msg, prev_time, i_have_responded,
    msg_calls, me_at, warnings, reaction_check

\* the credential files of the config directory and the staging directory of
\* _atomic_client_creds_setup; a file is the version of the credentials it
\* holds, NoFile when it does not exist
VARIABLES
    client_secrets, user_token,
    temp_dir, temp_client_secrets, temp_user_token,
    setup_pc, setup_result, setup_calls, files_before

\* the stored profiles, the ADC cache, the active profile of config.yaml and
\* the last profile command with what it gave back
VARIABLES
    profile_store, adc_status, active_profile,
    cmd, exit_code, mcp_result, cmd_count

creds == << client_secrets, user_token, temp_dir, temp_client_secrets,
            temp_user_token, setup_pc, setup_result, setup_calls, files_before >>

profs == << profile_store, adc_status, active_profile, cmd, exit_code,
            mcp_result, cmd_count >>

\* one workspace scanned twice: what the APIs answer for each candidate, and
\* the outcome of the scan with unanswered_only and of the scan without
VARIABLES
    script, scan_unanswered, scan_all

\* the files of one token profile during 'profiles refresh'
VARIABLES
    token_file, profile_yaml, temp_path,
    refresh_pc, refresh_exit, refresh_calls, profile_before

\* a cache file and the invocations working on it
VARIABLES
    cache_file, loaded, cache_op, cache_pc, written, cache_ops

\* whose identity the profile cache holds under "me", and what scans used
VARIABLES
    profile_account, me_cache, me_expired, scan_me, scan_account, scan_count

pair == << script, scan_unanswered, scan_all >>

refresh == << token_file, profile_yaml, temp_path, refresh_pc, refresh_exit,
              refresh_calls, profile_before >>

caching == << cache_file, loaded, cache_op, cache_pc, written, cache_ops >>

whoami == << profile_account, me_cache, me_expired, scan_me, scan_account,
             scan_count >>

\* _api_call_stats of the process when the scan is called
VARIABLES
    stats_before

process == << stats_before >>

more == << pair, refresh, caching, whoami, process >>

account == << creds, profs, more >>

params == << limit, implicit_mention_threshold, tiers_arg, discovery_limit,
             unanswered_only, message_limit, remote, page_len, senders, people >>

identity == << tiers, my_id, my_display_name >>

discovery == << all_spaces, page_token >>

selection == << fi, candidates >>

output == << results, space_stats, total_messages_scanned, exit_reason >>

walk == << ci, current_space_stat, n_messages, mi, msg, prev_time,
           i_have_responded, msg_calls, me_at, warnings >>

vars == << params, pc, identity, api_stats, discovery, selection,
           members_count, lookback_days, output, walk, reaction_check,
           account >>

\* nothing scanned twice, no refresh, no cache traffic, nothing cached
NoPair ==
    /\ script = << >>
    /\ scan_unanswered = NoOutcome
    /\ scan_all = NoOutcome

NoRefresh ==
    /\ token_file = NoFile
    /\ profile_yaml = NoFile
    /\ temp_path = NoFile
    /\ refresh_pc = "idle"
    /\ refresh_exit = None
    /\ refresh_calls = 0
    /\ profile_before = << NoFile, NoFile >>

NoCaching ==
    /\ cache_file = [k \in CacheKeys |-> "absent"]
    /\ loaded = [p \in Invocations |-> [k \in CacheKeys |-> "absent"]]
    /\ cache_op = [p \in Invocations |-> NoCacheOp]
    /\ cache_pc = [p \in Invocations |-> "idle"]
    /\ written = {}
    /\ cache_ops = 0

NoWhoami ==
    /\ profile_account = [n \in ProfileNames \cup {ADC_PROFILE_NAME} |-> "al"]
    /\ me_cache = NoId
    /\ me_expired = FALSE
    /\ scan_me = NoId
    /\ scan_account = NoId
    /\ scan_count = 0

NoProcess == stats_before = [m \in ApiMethods |-> 0]

NoMore == NoPair /\ NoRefresh /\ NoCaching /\ NoWhoami /\ NoProcess

\* no credentials installed, no profile stored, no command run
NoAccount ==
    /\ client_secrets = NoFile
    /\ user_token = NoFile
    /\ temp_dir = FALSE
    /\ temp_client_secrets = NoFile
    /\ temp_user_token = NoFile
    /\ setup_pc = "idle"
    /\ setup_result = "unset"
    /\ setup_calls = 0
    /\ files_before = << NoFile, NoFile >>
    /\ profile_store = [n \in ProfileNames |-> "missing"]
    /\ adc_status = "unvalidated"
    /\ active_profile = NoId
    /\ cmd = NoCmd
    /\ exit_code = None
    /\ mcp_result = "unset"
    /\ cmd_count = 0
    /\ NoMore

\* everything but the parameters, before the first statement runs
Fresh ==
    /\ pc = "start"
    /\ tiers = << >>
    /\ api_stats = [m \in ApiMethods |-> 0]
    /\ my_id = NoId
    /\ my_display_name = << >>
    /\ all_spaces = << >>
    /\ page_token = None
    /\ fi = 0
    /\ members_count = 0
    /\ lookback_days = 0
    /\ candidates = << >>
    /\ results = << >>
    /\ space_stats = << >>
    /\ total_messages_scanned = 0
    /\ exit_reason = "completed"
    /\ ci = 0
    /\ current_space_stat = NoStat
    /\ n_messages = 0
    /\ mi = 0
    /\ msg = NoMsg
    /\ prev_time = Now
    /\ i_have_responded = FALSE
    /\ msg_calls = << >>
    /\ me_at = 0
    /\ warnings = << >>
    /\ reaction_check = "unset"

\* a full scan with the default tiers; at most one of the two budgets is
\* below what the workspace can fill
Init ==
    /\ limit \in 0..MaxSpaces
    /\ implicit_mention_threshold = DefaultThreshold
    /\ tiers_arg = TiersArg(TRUE, << >>)
    /\ discovery_limit = DefaultDiscoveryLimit
    /\ unanswered_only \in BOOLEAN
    /\ message_limit \in 0..MaxMsgs
    /\ (limit = MaxSpaces \/ message_limit = MaxMsgs)
    /\ remote \in { Named(s) : s \in SeqsUpTo(ScanSpaces, MaxSpaces) }
    /\ page_len = 1
    /\ senders = PlainSenders
    /\ people = CachedLookups
    /\ Fresh
    /\ NoAccount

\* candidate selection: caller-supplied tiers in any order, one listed space
InitTier ==
    /\ limit = MaxSpaces
    /\ implicit_mention_threshold = DefaultThreshold
    /\ tiers_arg \in { TiersArg(TRUE, << >>) }
                     \cup { TiersArg(FALSE, l) : l \in SeqsUpTo(TierPool, MaxTiers) }
    /\ discovery_limit = DefaultDiscoveryLimit
    /\ unanswered_only = TRUE
    /\ message_limit = MaxMsgs
    /\ remote \in { Named(<< s >>) : s \in SelectSpaces }
    /\ page_len = 1
    /\ senders = PlainSenders
    /\ people = CachedLookups
    /\ Fresh
    /\ NoAccount

\* ---------------------------------------------------------------- actions

Count(stats, method) == [stats EXCEPT ![method] = @ + 1]

\* mutant of ResetApiCallCount: the counters of the process are kept
ResetApiCallCountKeeps(stats) == stats

\* timing.py lines 18-21: reset_api_call_count
ResetApiCallCount(stats) == [m \in ApiMethods |-> 0]

\* lines 55-103: default and sort the tiers, reset the call counters,
\* resolve the caller's identity
Start ==
    /\ pc = "start"
    /\ reaction_check' = "unset"
    /\ tiers' = SortTiers(IF tiers_arg.is_none THEN DefaultTiers ELSE tiers_arg.list)
    /\ \E r \in GetMeOutcomes :
         /\ api_stats' = IF r.fetched
                          THEN Count(ResetApiCallCount(api_stats),
                                     "_fetch_person_from_api")
                          ELSE ResetApiCallCount(api_stats)
         /\ my_id' = ToChatId(r.me.resourceName)
         /\ my_display_name' = FirstToken(r.me.displayName)
    /\ pc' = "discover"
    /\ UNCHANGED << account, params, discovery, selection, members_count, lookback_days,
                    output, walk >>

\* get_me reads the profile cache outside its try block: a cache that cannot
\* be read raises out of get_chat_mentions
StartRaises ==
    /\ pc = "start"
    /\ reaction_check' = "unset"
    /\ tiers' = SortTiers(IF tiers_arg.is_none THEN DefaultTiers ELSE tiers_arg.list)
    /\ api_stats' = ResetApiCallCount(api_stats)
    /\ pc' = "raised"
    /\ UNCHANGED << account, params, my_id, my_display_name, discovery, selection,
                    members_count, lookback_days, output, walk >>

\* one _list_spaces call that answers: the next page of the listing, of
\* the server's page length and never more than the pageSize asked for
ListSpaces ==
    /\ pc = "discover"
    /\ reaction_check' = "unset"
    /\ LET off == IF page_token = None THEN 0 ELSE page_token
           k == Min(Len(remote) - off, Min(page_len, PageSize))
           got == all_spaces \o SubSeq(remote, off + 1, off + k)
           next == IF off + k < Len(remote) THEN off + k ELSE None
       IN  /\ all_spaces' = got
           /\ page_token' = next
           /\ pc' = IF next = None \/ Len(got) >= discovery_limit
                    THEN "filter" ELSE "discover"
    /\ api_stats' = Count(api_stats, "_list_spaces")
    /\ UNCHANGED << account, params, identity, selection, members_count, lookback_days,
                    output, walk >>

\* a _list_spaces call that raises: discovery ends with what it has
ListSpacesFails ==
    /\ pc = "discover"
    /\ reaction_check' = "unset"
    /\ api_stats' = Count(api_stats, "_list_spaces")
    /\ pc' = "filter"
    /\ UNCHANGED << account, params, identity, discovery, selection, members_count,
                    lookback_days, output, walk >>

\* one iteration of the filter loop, lines 162-204
FilterSpace ==
    /\ pc = "filter"
    /\ reaction_check' = "unset"
    /\ fi < Len(all_spaces)
    /\ LET space == all_spaces[fi + 1]
           members == MembersCount(space)
           m == MatchTier(tiers, members)
           last_active == ParseApiTime(space.lastActiveTime)
           cutoff == Now - m.lookback_days
       IN  /\ members_count' = members
           /\ lookback_days' = m.lookback_days
           /\ candidates' =
                IF m.matched_tier /\ m.lookback_days > 0 /\ IsRecent(last_active, cutoff)
                THEN Append(candidates, MakeCandidate(space, members, m.lookback_days))
                ELSE candidates
    /\ fi' = fi + 1
    /\ UNCHANGED << account, params, pc, identity, api_stats, discovery, output, walk >>

\* lines 207-213: sort the candidates, initialise the scan loop
SortCandidates ==
    /\ pc = "filter"
    /\ reaction_check' = "unset"
    /\ fi = Len(all_spaces)
    /\ candidates' = SortCands(candidates)
    /\ results' = << >>
    /\ space_stats' = << >>
    /\ total_messages_scanned' = 0
    /\ exit_reason' = "completed"
    /\ pc' = "loop"
    /\ UNCHANGED << account, params, identity, api_stats, discovery, fi, members_count,
                    lookback_days, walk >>

NextTier ==
    \/ Start
    \/ StartRaises
    \/ ListSpaces
    \/ ListSpacesFails
    \/ FilterSpace
    \/ SortCandidates

SpecTier == InitTier /\ [][NextTier]_vars

\* candidate ordering: default tiers, several listed spaces of every kind
InitOrder ==
    /\ limit = MaxSpaces
    /\ implicit_mention_threshold = DefaultThreshold
    /\ tiers_arg = TiersArg(TRUE, << >>)
    /\ discovery_limit = DefaultDiscoveryLimit
    /\ unanswered_only = TRUE
    /\ message_limit = MaxMsgs
    /\ remote \in { Named(s) : s \in SeqsUpTo(OrderSpaces, MaxSpaces) }
    /\ page_len = 1
    /\ senders = PlainSenders
    /\ people = CachedLookups
    /\ Fresh
    /\ NoAccount

SpecOrder == InitOrder /\ [][NextTier]_vars

\* discovery: small discovery limits, pages of any length
InitDiscover ==
    /\ limit = MaxSpaces
    /\ implicit_mention_threshold = DefaultThreshold
    /\ tiers_arg = TiersArg(TRUE, << >>)
    /\ discovery_limit \in 0..MaxSpaces
    /\ unanswered_only = TRUE
    /\ message_limit = MaxMsgs
    /\ remote \in { Named(s) : s \in SeqsUpTo(OrderSpaces, MaxSpaces + 1) }
    /\ page_len \in 1..MaxSpaces
    /\ senders = PlainSenders
    /\ people = CachedLookups
    /\ Fresh
    /\ NoAccount

SpecDiscover == InitDiscover /\ [][NextTier]_vars

\* ------------------------------------------------- the candidate loop

IsImplicit == members_count <= implicit_mention_threshold

Cutoff == Now - lookback_days

\* the for loop over candidates is exhausted
LoopDone ==
    /\ pc = "loop"
    /\ reaction_check' = "unset"
    /\ ci = Len(candidates)
    /\ pc' = "done"
    /\ UNCHANGED << account, params, identity, api_stats, discovery, selection,
                    members_count, lookback_days, output, walk >>

\* lines 220-226: a budget is used up with this candidate still to scan
LimitReached ==
    /\ pc = "loop"
    /\ reaction_check' = "unset"
    /\ ci < Len(candidates)
    /\ LoopHeadCheck(Len(space_stats), total_messages_scanned, limit, message_limit)
         # "continue"
    /\ exit_reason' = LoopHeadCheck(Len(space_stats), total_messages_scanned,
                                    limit, message_limit)
    /\ pc' = "done"
    /\ UNCHANGED << account, params, identity, api_stats, discovery, selection,
                    members_count, lookback_days, results, space_stats,
                    total_messages_scanned, walk >>

\* the candidate the loop head takes next, when no budget stops it
Taking(item) ==
    /\ pc = "loop"
    /\ reaction_check' = "unset"
    /\ ci < Len(candidates)
    /\ LoopHeadCheck(Len(space_stats), total_messages_scanned, limit, message_limit)
         = "continue"
    /\ item = candidates[ci + 1]
    /\ ci' = ci + 1
    /\ members_count' = item.members
    /\ lookback_days' = item.lookback_days

\* the walk of the current space is over: its locals are dead
LeaveSpace ==
    /\ pc' = "loop"
    /\ current_space_stat' = NoStat
    /\ n_messages' = 0
    /\ mi' = 0
    /\ msg' = NoMsg
    /\ prev_time' = Now
    /\ i_have_responded' = FALSE
    /\ me_at' = 0

\* lines 260-262: an implicit space cannot be judged without my_id
SkipImplicit ==
    \E item \in { candidates[i] : i \in 1..Len(candidates) } :
      /\ Taking(item)
      /\ item.members <= implicit_mention_threshold
      /\ my_id = NoId
      /\ space_stats' = Append(space_stats, NewStat(item))
      /\ LeaveSpace
      /\ UNCHANGED << account, params, identity, api_stats, discovery, selection, results,
                      total_messages_scanned, exit_reason, msg_calls, warnings >>

Fetchable(item) ==
    /\ Taking(item)
    /\ ~(item.members <= implicit_mention_threshold /\ my_id = NoId)
    /\ api_stats' = Count(api_stats, "_list_space_messages")
    /\ msg_calls' = Append(msg_calls,
           [space |-> item.space.name,
            pageSize |-> FetchLimit(item.members <= implicit_mention_threshold)])

\* lines 264-277: _list_space_messages answers with at most pageSize
\* messages, newest first; the walk reads them one at a time.  The spaces
\* of the workspace hold MaxMsgs messages in all.
ListMessages ==
    \E item \in { candidates[i] : i \in 1..Len(candidates) } :
      /\ Fetchable(item)
      /\ \E n \in 0..Min(FetchLimit(item.members <= implicit_mention_threshold),
                         MaxMsgs - total_messages_scanned) :
           LET stat == [NewStat(item) EXCEPT !.messages_scanned = n]
           IN  /\ total_messages_scanned' = total_messages_scanned + n
               /\ IF n = 0
                  THEN /\ space_stats' = Append(space_stats, stat)
                       /\ LeaveSpace
                  ELSE /\ space_stats' = space_stats
                       /\ current_space_stat' = stat
                       /\ n_messages' = n
                       /\ mi' = 0
                       /\ i_have_responded' = FALSE
                       /\ pc' = "walk"
                       /\ UNCHANGED << msg, prev_time, me_at >>
      /\ UNCHANGED << account, params, identity, discovery, selection, results, exit_reason,
                      warnings >>

\* _list_space_messages raises: lines 359-362
ListMessagesFails ==
    \E item \in { candidates[i] : i \in 1..Len(candidates) } :
      /\ Fetchable(item)
      /\ space_stats' = OnSpaceFailure(space_stats, NewStat(item))
      /\ warnings' = Append(warnings, item.space.name)
      /\ LeaveSpace
      /\ UNCHANGED << account, params, identity, discovery, selection, results,
                      total_messages_scanned, exit_reason >>

\* for msg in messages: the next message of the response, not newer than
\* the one before it (orderBy createTime desc)
NextMessage ==
    /\ pc = "walk"
    /\ reaction_check' = "unset"
    /\ mi < n_messages
    /\ \E m \in Messages :
         /\ m.createTime <= prev_time
         /\ msg' = m
         /\ me_at' = IF me_at = 0 /\ my_id # NoId /\ m.sender = my_id
                     THEN mi + 1 ELSE me_at
    /\ mi' = mi + 1
    /\ pc' = "msg"
    /\ UNCHANGED << account, params, identity, api_stats, discovery, selection,
                    members_count, lookback_days, output, ci, current_space_stat,
                    n_messages, prev_time, i_have_responded, msg_calls, warnings >>

InRange == ParseApiTime(msg.createTime) >= Cutoff

Found == AnalyzeMessage(msg, my_id, my_display_name, IsImplicit, i_have_responded)

\* the loop body ends with continue or break, or the list is exhausted:
\* line 357 appends the stats entry when the loop is left
AfterMessage(outcome, stat, responded) ==
    IF LoopControl(outcome, unanswered_only) = "continue" /\ mi < n_messages
    THEN /\ pc' = "walk"
         /\ current_space_stat' = stat
         /\ i_have_responded' = responded
         /\ prev_time' = msg.createTime
         /\ msg' = NoMsg
         /\ space_stats' = space_stats
         /\ UNCHANGED << n_messages, mi, me_at >>
    ELSE /\ space_stats' = Append(space_stats, stat)
         /\ LeaveSpace

\* mutant of InRangeStat: the message is not counted as in range
InRangeStatNotCounted == current_space_stat

\* line 290
InRangeStat == [current_space_stat EXCEPT !.messages_in_range = @ + 1]

FoundStat == [InRangeStat EXCEPT !.mentions_found = @ + 1]

\* lines 286-288
MsgTooOld ==
    /\ pc = "msg"
    /\ reaction_check' = "unset"
    /\ ~InRange
    /\ AfterMessage("too_old", current_space_stat, i_have_responded)
    /\ UNCHANGED << account, params, identity, api_stats, discovery, selection,
                    members_count, lookback_days, results,
                    total_messages_scanned, exit_reason, ci, msg_calls, warnings >>

\* lines 292-297
MsgFromMe ==
    /\ pc = "msg"
    /\ reaction_check' = "unset"
    /\ InRange
    /\ msg.sender = my_id
    /\ AfterMessage("me", InRangeStat, TRUE)
    /\ UNCHANGED << account, params, identity, api_stats, discovery, selection,
                    members_count, lookback_days, results,
                    total_messages_scanned, exit_reason, ci, msg_calls, warnings >>

\* line 300 finds nothing
MsgNotActionable ==
    /\ pc = "msg"
    /\ reaction_check' = "unset"
    /\ InRange
    /\ msg.sender # my_id
    /\ Found = NoItem
    /\ AfterMessage("none", InRangeStat, i_have_responded)
    /\ UNCHANGED << account, params, identity, api_stats, discovery, selection,
                    members_count, lookback_days, results,
                    total_messages_scanned, exit_reason, ci, msg_calls, warnings >>

\* what the reaction check of lines 305-318 can meet
ReactionOutcomes == {"none", "mine", "failed"}

\* mutant of ReactionHandled: a lookup that raises discards the item
ReactionHandledOrFailed(outcome) == outcome \in {"mine", "failed"}

\* found_item = None only when a listed reaction is mine; a lookup that
\* raises is logged and passed over
ReactionHandled(outcome) == outcome = "mine"

\* lines 305-315: a reaction of mine discards the item
MsgHandledByReaction ==
    /\ pc = "msg"
    /\ InRange
    /\ msg.sender # my_id
    /\ Found # NoItem
    /\ unanswered_only
    /\ \E outcome \in ReactionOutcomes :
         /\ ReactionHandled(outcome)
         /\ reaction_check' = outcome
    /\ api_stats' = Count(api_stats, "_list_reactions")
    /\ AfterMessage("none", FoundStat, i_have_responded)
    /\ UNCHANGED << account, params, identity, discovery, selection,
                    members_count, lookback_days, results,
                    total_messages_scanned, exit_reason, ci, msg_calls, warnings >>

\* the item survives: no reaction of mine, a failed reaction lookup, or no
\* lookup at all without unanswered_only
Surviving(calls) ==
    /\ pc = "msg"
    /\ InRange
    /\ msg.sender # my_id
    /\ Found # NoItem
    /\ calls = IF unanswered_only THEN Count(api_stats, "_list_reactions")
               ELSE api_stats
    /\ IF unanswered_only
       THEN \E outcome \in ReactionOutcomes :
              /\ ~ReactionHandled(outcome)
              /\ reaction_check' = outcome
       ELSE reaction_check' = "unset"

ConfirmedStat == [FoundStat EXCEPT !.unanswered_mentions = @ + 1]

\* lines 320-357: resolve the sender name, emit the item, leave the loop
MsgEmit ==
    \E s \in senders, p \in people :
      LET calls == IF unanswered_only THEN Count(api_stats, "_list_reactions")
                   ELSE api_stats
          looked == s.displayName = NoId
      IN  /\ Surviving(calls)
          /\ api_stats' = IF looked /\ p.fetched
                          THEN Count(calls, "_fetch_person_from_api") ELSE calls
          /\ results' = Append(results,
                [type |-> Found.type,
                 space_id |-> current_space_stat.id,
                 members |-> members_count,
                 time |-> msg.createTime,
                 sender |-> ResolveSender(s.displayName, p.name, s.email),
                 text |-> msg.text,
                 reason |-> Found.reason])
          /\ AfterMessage("emit", ConfirmedStat, i_have_responded)
          /\ UNCHANGED << account, params, identity, discovery, selection,
                          members_count, lookback_days,
                          total_messages_scanned, exit_reason, ci, msg_calls, warnings >>

\* get_person_name reads the profile cache outside its try block: the error
\* reaches the except of the per-space try, after the counts were updated
MsgNameResolutionRaises ==
    \E s \in senders, calls \in { api_stats, Count(api_stats, "_list_reactions") } :
      /\ s.displayName = NoId
      /\ Surviving(calls)
      /\ api_stats' = calls
      /\ space_stats' = OnSpaceFailure(space_stats, ConfirmedStat)
      /\ warnings' = Append(warnings, current_space_stat.id)
      /\ LeaveSpace
      /\ UNCHANGED << account, params, identity, discovery, selection,
                      members_count, lookback_days, results,
                      total_messages_scanned, exit_reason, ci, msg_calls >>

Next ==
    \/ Start
    \/ StartRaises
    \/ ListSpaces
    \/ ListSpacesFails
    \/ FilterSpace
    \/ SortCandidates
    \/ LoopDone
    \/ LimitReached
    \/ SkipImplicit
    \/ ListMessages
    \/ ListMessagesFails
    \/ NextMessage
    \/ MsgTooOld
    \/ MsgFromMe
    \/ MsgNotActionable
    \/ MsgHandledByReaction
    \/ MsgEmit
    \/ MsgNameResolutionRaises

Spec == Init /\ [][Next]_vars

\* whole scans over short listings cut into pages of any length, with every
\* budget from nothing to more than the workspace holds
InitFair ==
    /\ limit \in 0..MaxSpaces
    /\ implicit_mention_threshold = DefaultThreshold
    /\ tiers_arg = TiersArg(TRUE, << >>)
    /\ discovery_limit \in 0..MaxSpaces
    /\ unanswered_only = TRUE
    /\ message_limit \in {0, MaxMsgs}
    /\ remote \in { Named(s) : s \in SeqsUpTo(ScanSpaces, MaxSpaces) }
    /\ page_len \in 1..MaxSpaces
    /\ senders = PlainSenders
    /\ people = CachedLookups
    /\ Fresh
    /\ NoAccount

\* the scan is one sequential call: while a statement is left to run, one runs
FairSpec == InitFair /\ [][Next]_vars /\ WF_vars(Next)

\* a scan in a process that has made API calls before: the counters hold
\* them when the scan is called
EarlierStats ==
    { [m \in ApiMethods |-> 2],
      [m \in ApiMethods |-> IF m = "_list_spaces" THEN 1 ELSE 0] }

InitStats ==
    /\ limit = MaxSpaces
    /\ implicit_mention_threshold = DefaultThreshold
    /\ tiers_arg = TiersArg(TRUE, << >>)
    /\ discovery_limit = DefaultDiscoveryLimit
    /\ unanswered_only = TRUE
    /\ message_limit = MaxMsgs
    /\ remote \in { Named(s) : s \in SeqsUpTo(ScanSpaces, MaxSpaces) }
    /\ page_len = 1
    /\ senders = SenderForms
    /\ people = PersonLookups
    /\ stats_before \in EarlierStats
    /\ api_stats = stats_before
    /\ pc = "start"
    /\ tiers = << >>
    /\ my_id = NoId
    /\ my_display_name = << >>
    /\ all_spaces = << >>
    /\ page_token = None
    /\ fi = 0
    /\ members_count = 0
    /\ lookback_days = 0
    /\ candidates = << >>
    /\ results = << >>
    /\ space_stats = << >>
    /\ total_messages_scanned = 0
    /\ exit_reason = "completed"
    /\ ci = 0
    /\ current_space_stat = NoStat
    /\ n_messages = 0
    /\ mi = 0
    /\ msg = NoMsg
    /\ prev_time = Now
    /\ i_have_responded = FALSE
    /\ msg_calls = << >>
    /\ me_at = 0
    /\ warnings = << >>
    /\ reaction_check = "unset"
    /\ client_secrets = NoFile
    /\ user_token = NoFile
    /\ temp_dir = FALSE
    /\ temp_client_secrets = NoFile
    /\ temp_user_token = NoFile
    /\ setup_pc = "idle"
    /\ setup_result = "unset"
    /\ setup_calls = 0
    /\ files_before = << NoFile, NoFile >>
    /\ profile_store = [n \in ProfileNames |-> "missing"]
    /\ adc_status = "unvalidated"
    /\ active_profile = NoId
    /\ cmd = NoCmd
    /\ exit_code = None
    /\ mcp_result = "unset"
    /\ cmd_count = 0
    /\ NoPair /\ NoRefresh /\ NoCaching /\ NoWhoami

SpecStats == InitStats /\ [][Next]_vars

\* ------------------------------------- one workspace, scanned both ways
\* the candidate loop (lines 215-362) as a function of what the APIs answer

\* a message of the script: the message, what _list_reactions answers for it
\* and how its sender name resolves
ScriptMsg(age, sender, mention, reaction, resolve) ==
    [createTime |-> Now - age, sender |-> sender, mention |-> mention,
     text |-> << "h", "i" >>, reaction |-> reaction, resolve |-> resolve]

PairMessages ==
    { ScriptMsg(1, "users/bob", "users/me", "none", "named"),
      ScriptMsg(1, "users/bob", "users/me", "mine", "named"),
      ScriptMsg(1, "users/bob", "users/me", "none", "raises"),
      ScriptMsg(1, "users/bob", "users/me", "mine", "raises"),
      ScriptMsg(1, "users/bob", NoId, "none", "named"),
      ScriptMsg(1, "users/me", NoId, "none", "named") }

\* the message before the newest one
PairOlder ==
    { ScriptMsg(2, "users/bob", "users/me", "none", "named"),
      ScriptMsg(2, "users/bob", NoId, "none", "named") }

\* what _list_space_messages answers for one candidate: an error, nothing,
\* or one or two messages, newest first
PairResponses ==
    { [fails |-> TRUE, messages |-> << >>], [fails |-> FALSE, messages |-> << >>] }
    \cup { [fails |-> FALSE, messages |-> << m >>] : m \in PairMessages }
    \cup { [fails |-> FALSE, messages |-> << m, o >>] :
              m \in PairMessages, o \in PairOlder }

\* lines 278-355 for one response: TRUE when an item is appended to results
RECURSIVE WalkEmits(_, _, _, _, _)
WalkEmits(msgs, is_implicit, cutoff, unanswered, responded) ==
    IF msgs = << >> THEN FALSE
    ELSE LET m == Head(msgs)
             found == AnalyzeMessage(m, my_id, my_display_name, is_implicit,
                                     responded)
             handled == found # NoItem /\ unanswered /\ ReactionHandled(m.reaction)
         IN  IF ParseApiTime(m.createTime) < cutoff
             THEN WalkEmits(Tail(msgs), is_implicit, cutoff, unanswered, responded)
             ELSE IF m.sender = my_id
             THEN ( IF LoopControl("me", unanswered) = "break" THEN FALSE
                    ELSE WalkEmits(Tail(msgs), is_implicit, cutoff, unanswered, TRUE) )
             ELSE IF found = NoItem \/ handled
             THEN WalkEmits(Tail(msgs), is_implicit, cutoff, unanswered, responded)
             ELSE m.resolve # "raises"

\* lines 215-362 from candidate k on; acc is what the scan has gathered
RECURSIVE ScanFrom(_, _, _, _)
ScanFrom(k, sc, unanswered, acc) ==
    IF k > Len(candidates) THEN acc
    ELSE IF LoopHeadCheck(Len(acc.visited), acc.total, limit, message_limit)
                # "continue"
    THEN [acc EXCEPT !.exit_reason =
              LoopHeadCheck(Len(acc.visited), acc.total, limit, message_limit)]
    ELSE LET item == candidates[k]
             is_implicit == item.members <= implicit_mention_threshold
             answer == IF sc[k].fails THEN << >>
                       ELSE SubSeq(sc[k].messages, 1,
                                   Min(FetchLimit(is_implicit), Len(sc[k].messages)))
             skipped == is_implicit /\ my_id = NoId
             n == IF skipped THEN 0 ELSE Len(answer)
             emits == ~skipped /\ WalkEmits(answer, is_implicit,
                                            Now - item.lookback_days, unanswered, FALSE)
         IN  ScanFrom(k + 1, sc, unanswered,
                 [acc EXCEPT !.visited = Append(@, [id |-> item.space.name,
                                                     messages_scanned |-> n]),
                             !.total = @ + n,
                             !.emitted = IF emits THEN @ \cup {item.space.name} ELSE @])

\* what a scan of the candidates gives when the APIs answer by the script
ScanOutcome(sc, unanswered) ==
    LET end == ScanFrom(1, sc, unanswered,
                   [emitted |-> {}, visited |-> << >>, total |-> 0,
                    exit_reason |-> "completed"])
    IN  [emitted |-> end.emitted, visited |-> end.visited,
         exit_reason |-> end.exit_reason]

\* the candidates are scanned with unanswered_only and without it, the APIs
\* answering the same both times
ScanBoth ==
    /\ pc = "loop"
    /\ ci = 0
    /\ \E sc \in [1..Len(candidates) -> PairResponses] :
         /\ script' = sc
         /\ scan_unanswered' = ScanOutcome(sc, TRUE)
         /\ scan_all' = ScanOutcome(sc, FALSE)
    /\ pc' = "compared"
    /\ UNCHANGED << creds, profs, refresh, caching, whoami, process, params,
                    identity,
                    api_stats, discovery, selection, members_count,
                    lookback_days, output, walk, reaction_check >>

\* a workspace of small and large spaces, active lately, listed in one page
InitPair ==
    /\ limit \in {1, MaxSpaces}
    /\ implicit_mention_threshold = DefaultThreshold
    /\ tiers_arg = TiersArg(TRUE, << >>)
    /\ discovery_limit = DefaultDiscoveryLimit
    /\ unanswered_only = TRUE
    /\ message_limit \in {1, FetchWindow}
    /\ remote \in { Named(s) : s \in SeqsUpTo(
           { Space("DIRECT_MESSAGE", Membership(FALSE, None), Now - 3),
             Space("SPACE", Membership(TRUE, 11), Now - 1) }, MaxSpaces) }
    /\ page_len = PageSize
    /\ senders = PlainSenders
    /\ people = CachedLookups
    /\ Fresh
    /\ NoAccount

NextPair ==
    \/ Start
    \/ StartRaises
    \/ ListSpaces
    \/ ListSpacesFails
    \/ FilterSpace
    \/ SortCandidates
    \/ ScanBoth

SpecPair == InitPair /\ [][NextPair]_vars

\* lines 364-379: what the scan returns
ScanResult ==
    [ mentions |-> results,
      source |-> [ spaces |-> space_stats,
                   total_spaces_scanned |-> Len(space_stats),
                   total_messages_scanned |-> total_messages_scanned,
                   exit_reason |-> exit_reason ],
      scanned_count |-> Len(candidates),
      total_count |-> Len(all_spaces),
      api_stats |-> api_stats ]

\* ------------------------------------------- client credential setup
\* src/gwsa_cli/setup_local.py, _atomic_client_creds_setup

\* the credentials the call with this number brings
NewCreds(calls) == calls + 1

\* the statements of the try block, in order
TrySteps == << "copy", "flow", "write_token", "move_client_secrets",
               "move_user_token" >>

InTry(p) == \E i \in 1..Len(TrySteps) : TrySteps[i] = p

SetupIdle == setup_pc \in {"idle", "returned"}

\* lines 328-331: the provided path does not exist, nothing is touched
SetupPathMissing ==
    /\ SetupIdle
    /\ setup_calls < MaxSetups
    /\ setup_calls' = setup_calls + 1
    /\ files_before' = << client_secrets, user_token >>
    /\ setup_result' = "False"
    /\ setup_pc' = "returned"
    /\ UNCHANGED << client_secrets, user_token, temp_dir, temp_client_secrets,
                    temp_user_token >>
    /\ UNCHANGED << profs, more, params, pc, identity, api_stats, discovery,
                    selection, members_count, lookback_days, output, walk,
                    reaction_check >>

\* lines 333-335: the staging directory is made inside the config directory
SetupBegin ==
    /\ SetupIdle
    /\ setup_calls < MaxSetups
    /\ setup_calls' = setup_calls + 1
    /\ files_before' = << client_secrets, user_token >>
    /\ setup_result' = "unset"
    /\ temp_dir' = TRUE
    /\ setup_pc' = "copy"
    /\ UNCHANGED << client_secrets, user_token, temp_client_secrets,
                    temp_user_token >>
    /\ UNCHANGED << profs, more, params, pc, identity, api_stats, discovery,
                    selection, members_count, lookback_days, output, walk,
                    reaction_check >>

\* line 341: shutil.copy(provided_creds_path, temp_client_secrets)
SetupCopy ==
    /\ setup_pc = "copy"
    /\ temp_client_secrets' = NewCreds(setup_calls)
    /\ setup_pc' = "flow"
    /\ UNCHANGED << client_secrets, user_token, temp_dir, temp_user_token,
                    setup_result, setup_calls, files_before >>
    /\ UNCHANGED << profs, more, params, pc, identity, api_stats, discovery,
                    selection, members_count, lookback_days, output, walk,
                    reaction_check >>

\* lines 344-347: the OAuth flow runs against the staged client secrets
SetupFlow ==
    /\ setup_pc = "flow"
    /\ setup_pc' = "write_token"
    /\ UNCHANGED << client_secrets, user_token, temp_dir, temp_client_secrets,
                    temp_user_token, setup_result, setup_calls, files_before >>
    /\ UNCHANGED << profs, more, params, pc, identity, api_stats, discovery,
                    selection, members_count, lookback_days, output, walk,
                    reaction_check >>

\* lines 349-353: the token is written into the staging directory
SetupWriteToken ==
    /\ setup_pc = "write_token"
    /\ temp_user_token' = NewCreds(setup_calls)
    /\ setup_pc' = "move_client_secrets"
    /\ UNCHANGED << client_secrets, user_token, temp_dir, temp_client_secrets,
                    setup_result, setup_calls, files_before >>
    /\ UNCHANGED << profs, more, params, pc, identity, api_stats, discovery,
                    selection, members_count, lookback_days, output, walk,
                    reaction_check >>

\* line 357: shutil.move(temp_client_secrets, CLIENT_SECRETS_FILE)
SetupMoveClientSecrets ==
    /\ setup_pc = "move_client_secrets"
    /\ client_secrets' = temp_client_secrets
    /\ temp_client_secrets' = NoFile
    /\ setup_pc' = "move_user_token"
    /\ UNCHANGED << user_token, temp_dir, temp_user_token, setup_result,
                    setup_calls, files_before >>
    /\ UNCHANGED << profs, more, params, pc, identity, api_stats, discovery,
                    selection, members_count, lookback_days, output, walk,
                    reaction_check >>

\* lines 358-361: shutil.move(temp_user_token, USER_TOKEN_FILE); return True
SetupMoveUserToken ==
    /\ setup_pc = "move_user_token"
    /\ user_token' = temp_user_token
    /\ temp_user_token' = NoFile
    /\ setup_result' = "True"
    /\ setup_pc' = "finally"
    /\ UNCHANGED << client_secrets, temp_dir, temp_client_secrets,
                    setup_calls, files_before >>
    /\ UNCHANGED << profs, more, params, pc, identity, api_stats, discovery,
                    selection, members_count, lookback_days, output, walk,
                    reaction_check >>

\* lines 363-366: any statement of the try block raises; the handler logs
\* and returns False
SetupExcept ==
    /\ InTry(setup_pc)
    /\ setup_result' = "False"
    /\ setup_pc' = "finally"
    /\ UNCHANGED << client_secrets, user_token, temp_dir, temp_client_secrets,
                    temp_user_token, setup_calls, files_before >>
    /\ UNCHANGED << profs, more, params, pc, identity, api_stats, discovery,
                    selection, members_count, lookback_days, output, walk,
                    reaction_check >>

\* lines 367-370: finally removes the staging directory and what is in it
SetupFinally ==
    /\ setup_pc = "finally"
    /\ temp_dir' = FALSE
    /\ temp_client_secrets' = NoFile
    /\ temp_user_token' = NoFile
    /\ setup_pc' = "returned"
    /\ UNCHANGED << client_secrets, user_token, setup_result, setup_calls,
                    files_before >>
    /\ UNCHANGED << profs, more, params, pc, identity, api_stats, discovery,
                    selection, members_count, lookback_days, output, walk,
                    reaction_check >>

\* no scan is running: the parameters of a default scan of an empty workspace
IdleScan ==
    /\ limit = MaxSpaces
    /\ implicit_mention_threshold = DefaultThreshold
    /\ tiers_arg = TiersArg(TRUE, << >>)
    /\ discovery_limit = DefaultDiscoveryLimit
    /\ unanswered_only = TRUE
    /\ message_limit = MaxMsgs
    /\ remote = << >>
    /\ page_len = 1
    /\ senders = PlainSenders
    /\ people = CachedLookups
    /\ Fresh

\* repeated setups over a config directory that holds any mix of earlier
\* credential files
InitSetup ==
    /\ IdleScan
    /\ client_secrets \in {NoFile, 1}
    /\ user_token \in {NoFile, 1}
    /\ temp_dir = FALSE
    /\ temp_client_secrets = NoFile
    /\ temp_user_token = NoFile
    /\ setup_pc = "idle"
    /\ setup_result = "unset"
    /\ setup_calls = 0
    /\ files_before = << client_secrets, user_token >>
    /\ profile_store = [n \in ProfileNames |-> "missing"]
    /\ adc_status = "unvalidated"
    /\ active_profile = NoId
    /\ cmd = NoCmd
    /\ exit_code = None
    /\ mcp_result = "unset"
    /\ cmd_count = 0
    /\ NoMore

NextSetup ==
    \/ SetupPathMissing
    \/ SetupBegin
    \/ SetupCopy
    \/ SetupFlow
    \/ SetupWriteToken
    \/ SetupMoveClientSecrets
    \/ SetupMoveUserToken
    \/ SetupExcept
    \/ SetupFinally

SpecSetup == InitSetup /\ [][NextSetup]_vars

\* ------------------------------------------------------ profile commands
\* src/gwsa/sdk/profiles.py, src/gwsa/cli/profiles_commands.py,
\* src/gwsa/mcp/server.py

\* what a command can be given as a name: the token profiles, the built-in
\* profile and a name the pattern refuses
InvalidName == "a b"

CmdNames == ProfileNames \cup {ADC_PROFILE_NAME, InvalidName}

\* PROFILE_NAME_PATTERN: letters, digits, "-" and "_", at most 32
IsValidProfileName(name) == name \in ProfileNames \cup {ADC_PROFILE_NAME}

\* what is under profiles/<name>: "missing" (no directory), "corrupt" (token
\* file is not JSON), "unvalidated" (no last_validated), "valid"
StoreStates == { "missing", "corrupt", "unvalidated", "valid" }

AdcStates == { "valid", "stale", "unvalidated" }

Stored(name) == IF name \in ProfileNames THEN profile_store[name] ELSE "missing"

\* mutant of ProfileExists: every name passes for a stored profile
ProfileExistsAlways(name) == TRUE

\* profiles.py lines 156-163
ProfileExists(name) == name = ADC_PROFILE_NAME \/ Stored(name) # "missing"

\* profiles.py lines 166-267
GetProfileStatus(name) ==
    IF name = ADC_PROFILE_NAME
    THEN [exists |-> TRUE, valid |-> adc_status = "valid", status |-> adc_status]
    ELSE IF Stored(name) = "missing"
    THEN [exists |-> FALSE, valid |-> FALSE, status |-> "missing"]
    ELSE IF Stored(name) = "corrupt"
    THEN [exists |-> TRUE, valid |-> FALSE, status |-> "error"]
    ELSE IF Stored(name) = "unvalidated"
    THEN [exists |-> TRUE, valid |-> FALSE, status |-> "unvalidated"]
    ELSE [exists |-> TRUE, valid |-> TRUE, status |-> "valid"]

\* profiles.py lines 135-153: the new value of active_profile, or the old
\* one when the profile does not exist
SetActiveProfile(name) == IF ProfileExists(name) THEN name ELSE active_profile

\* a command has run: it is recorded with what it gave back
Ran(op, name, new_name, code, result) ==
    /\ cmd_count < MaxCmds
    /\ cmd_count' = cmd_count + 1
    /\ cmd' = [op |-> op, name |-> name, new_name |-> new_name]
    /\ exit_code' = code
    /\ mcp_result' = result
    /\ UNCHANGED << creds, more, adc_status, params, pc, identity, api_stats,
                    discovery, selection, members_count, lookback_days,
                    output, walk, reaction_check >>

\* add_cmd lines 430-451: the checks before the browser opens
AddRejectedNoExistsCheck(name) ==
    \/ name = ADC_PROFILE_NAME
    \/ ~IsValidProfileName(name)
    \/ client_secrets = NoFile

AddRejected(name) ==
    \/ name = ADC_PROFILE_NAME
    \/ ~IsValidProfileName(name)
    \/ ProfileExists(name)
    \/ client_secrets = NoFile

\* what the OAuth flow and tokeninfo give add_cmd
AddOutcomes == { "flow_fails", "no_email", "scopes", "no_scopes" }

\* add_cmd lines 415-494 with create_profile (profiles.py 304-346)
AddCmd ==
    \E name \in CmdNames, outcome \in AddOutcomes :
        IF AddRejected(name) \/ outcome \in {"flow_fails", "no_email"}
        THEN /\ Ran("add", name, NoId, 1, "unset")
             /\ UNCHANGED << profile_store, active_profile >>
        ELSE /\ Ran("add", name, NoId, 0, "unset")
             /\ profile_store' = [profile_store EXCEPT ![name] =
                    IF outcome = "scopes" THEN "valid" ELSE "unvalidated"]
             /\ UNCHANGED active_profile

\* delete_cmd lines 505-511
DeleteRejected(name) == name = ADC_PROFILE_NAME \/ ~ProfileExists(name)

\* delete_cmd lines 497-528 with delete_profile (profiles.py 349-373)
DeleteCmd ==
    \E name \in CmdNames, confirmed \in BOOLEAN :
        IF DeleteRejected(name)
        THEN /\ Ran("delete", name, NoId, 1, "unset")
             /\ UNCHANGED << profile_store, active_profile >>
        ELSE IF ~confirmed
        THEN /\ Ran("delete", name, NoId, 0, "unset")
             /\ UNCHANGED << profile_store, active_profile >>
        ELSE /\ Ran("delete", name, NoId, 0, "unset")
             /\ profile_store' = [profile_store EXCEPT ![name] = "missing"]
             /\ active_profile' = IF active_profile = name THEN NoId
                                  ELSE active_profile

\* mutant of RenameRejected: a source that is not stored is not refused
RenameRejectedNoSourceCheck(old_name, new_name) ==
    \/ old_name \notin ProfileNames
    \/ new_name = ADC_PROFILE_NAME
    \/ ~IsValidProfileName(new_name)
    \/ ProfileExists(new_name)

\* rename_cmd lines 546-569: the fail-fast checks
RenameRejected(old_name, new_name) ==
    \/ old_name = ADC_PROFILE_NAME
    \/ new_name = ADC_PROFILE_NAME
    \/ ~IsValidProfileName(new_name)
    \/ ~ProfileExists(old_name)
    \/ ProfileExists(new_name)

\* how the folder move, the config write and the rollback end
RenameOutcomes == { "ok", "move_fails", "config_fails", "rollback_fails" }

\* rename_cmd lines 531-606
RenameCmd ==
    \E old_name \in CmdNames, new_name \in CmdNames, outcome \in RenameOutcomes :
        LET was_active == active_profile = old_name
            moved == [profile_store EXCEPT ![old_name] = "missing",
                                           ![new_name] = profile_store[old_name]]
        IN  IF RenameRejected(old_name, new_name) \/ outcome = "move_fails"
            THEN /\ Ran("rename", old_name, new_name, 1, "unset")
                 /\ UNCHANGED << profile_store, active_profile >>
            ELSE IF was_active /\ outcome = "config_fails"
            THEN /\ Ran("rename", old_name, new_name, 1, "unset")
                 /\ UNCHANGED << profile_store, active_profile >>
            ELSE IF was_active /\ outcome = "rollback_fails"
            THEN /\ Ran("rename", old_name, new_name, 1, "unset")
                 /\ profile_store' = moved
                 /\ UNCHANGED active_profile
            ELSE /\ Ran("rename", old_name, new_name, 0, "unset")
                 /\ profile_store' = moved
                 /\ active_profile' = IF was_active THEN new_name
                                      ELSE active_profile

\* use_cmd lines 172-190: the name and the cached status are checked
UseRejected(name) ==
    \/ ~IsValidProfileName(name) /\ name # ADC_PROFILE_NAME
    \/ ~GetProfileStatus(name).exists
    \/ ~GetProfileStatus(name).valid

\* use_cmd lines 156-243; a recheck that succeeds stamps last_validated
\* (update_profile_metadata) on a profile that was valid already
UseCmd ==
    \E name \in CmdNames, no_recheck \in BOOLEAN, recheck_ok \in BOOLEAN :
        IF UseRejected(name) \/ (~no_recheck /\ ~recheck_ok)
        THEN /\ Ran("use", name, NoId, 1, "unset")
             /\ UNCHANGED << profile_store, active_profile >>
        ELSE /\ Ran("use", name, NoId, 0, "unset")
             /\ active_profile' = SetActiveProfile(name)
             /\ UNCHANGED profile_store

\* server.py lines 357-391: MCP switch_profile
SwitchProfile ==
    \E profile_name \in CmdNames :
        IF ~ProfileExists(profile_name)
        THEN /\ Ran("switch_profile", profile_name, NoId, None, "error")
             /\ UNCHANGED << profile_store, active_profile >>
        ELSE /\ Ran("switch_profile", profile_name, NoId, None, "success")
             /\ active_profile' = SetActiveProfile(profile_name)
             /\ UNCHANGED profile_store

\* any stored profiles in any state, any ADC state, any profile that exists
\* active, client secrets imported or not
InitProfiles ==
    /\ IdleScan
    /\ client_secrets \in {NoFile, 1}
    /\ user_token = NoFile
    /\ temp_dir = FALSE
    /\ temp_client_secrets = NoFile
    /\ temp_user_token = NoFile
    /\ setup_pc = "idle"
    /\ setup_result = "unset"
    /\ setup_calls = 0
    /\ files_before = << NoFile, NoFile >>
    /\ profile_store \in [ProfileNames -> StoreStates]
    /\ adc_status \in AdcStates
    /\ active_profile \in {NoId, ADC_PROFILE_NAME}
                          \cup { n \in ProfileNames : profile_store[n] # "missing" }
    /\ cmd = NoCmd
    /\ exit_code = None
    /\ mcp_result = "unset"
    /\ cmd_count = 0
    /\ NoMore

NextProfiles ==
    \/ AddCmd
    \/ DeleteCmd
    \/ RenameCmd
    \/ UseCmd
    \/ SwitchProfile

SpecProfiles == InitProfiles /\ [][NextProfiles]_vars

\* ------------------------------------------------------ profile refresh
\* src/gwsa/cli/profiles_commands.py, refresh_cmd for a token profile

\* the credentials the refresh with this number obtains
NewToken(calls) == calls + 1

\* the statements of the outer try block that can raise, in order
RefreshSteps == << "flow", "tokeninfo", "mkstemp", "dump", "move", "metadata" >>

\* the statements of the inner try block around the temp file
InnerSteps == { "dump", "move" }

RefreshIdle == refresh_pc \in {"idle", "exited"}

\* every refresh action leaves the rest of the model alone
RefreshOnly ==
    UNCHANGED << creds, profs, pair, caching, whoami, process, params, pc,
                 identity, api_stats, discovery, selection, members_count,
                 lookback_days, output, walk, reaction_check >>

\* lines 341-356: the profile exists, the client secrets do not
RefreshNoSecrets ==
    /\ RefreshIdle
    /\ refresh_calls < MaxRefreshes
    /\ client_secrets = NoFile
    /\ refresh_calls' = refresh_calls + 1
    /\ profile_before' = << token_file, profile_yaml >>
    /\ refresh_exit' = 1
    /\ refresh_pc' = "exited"
    /\ UNCHANGED << token_file, profile_yaml, temp_path >>
    /\ RefreshOnly

\* lines 358-364: the checks pass, the try block is entered
RefreshBegin ==
    /\ RefreshIdle
    /\ refresh_calls < MaxRefreshes
    /\ token_file # NoFile
    /\ client_secrets # NoFile
    /\ refresh_calls' = refresh_calls + 1
    /\ profile_before' = << token_file, profile_yaml >>
    /\ refresh_exit' = None
    /\ refresh_pc' = "flow"
    /\ UNCHANGED << token_file, profile_yaml, temp_path >>
    /\ RefreshOnly

\* lines 369-370: the OAuth flow
RefreshFlow ==
    /\ refresh_pc = "flow"
    /\ refresh_pc' = "tokeninfo"
    /\ UNCHANGED << token_file, profile_yaml, temp_path, refresh_exit,
                    refresh_calls, profile_before >>
    /\ RefreshOnly

\* lines 375-386: tokeninfo answers; without an email the command exits
RefreshTokenInfo ==
    /\ refresh_pc = "tokeninfo"
    /\ \E email \in BOOLEAN :
         IF email
         THEN refresh_pc' = "mkstemp" /\ refresh_exit' = refresh_exit
         ELSE refresh_pc' = "exited" /\ refresh_exit' = 1
    /\ UNCHANGED << token_file, profile_yaml, temp_path, refresh_calls,
                    profile_before >>
    /\ RefreshOnly

\* lines 389-390: tempfile.mkstemp in the profile directory
RefreshMkstemp ==
    /\ refresh_pc = "mkstemp"
    /\ temp_path' = NewToken(refresh_calls)
    /\ refresh_pc' = "dump"
    /\ UNCHANGED << token_file, profile_yaml, refresh_exit, refresh_calls,
                    profile_before >>
    /\ RefreshOnly

\* lines 392-393: the token is written into the temp file
RefreshDump ==
    /\ refresh_pc = "dump"
    /\ refresh_pc' = "move"
    /\ UNCHANGED << token_file, profile_yaml, temp_path, refresh_exit,
                    refresh_calls, profile_before >>
    /\ RefreshOnly

\* line 395: shutil.move(temp_path, token_path)
RefreshMove ==
    /\ refresh_pc = "move"
    /\ token_file' = temp_path
    /\ temp_path' = NoFile
    /\ refresh_pc' = "metadata"
    /\ UNCHANGED << profile_yaml, refresh_exit, refresh_calls, profile_before >>
    /\ RefreshOnly

\* lines 403-407 with update_profile_metadata (profiles.py 376-398)
RefreshMetadata ==
    /\ refresh_pc = "metadata"
    /\ profile_yaml' = NewToken(refresh_calls)
    /\ refresh_exit' = 0
    /\ refresh_pc' = "exited"
    /\ UNCHANGED << token_file, temp_path, refresh_calls, profile_before >>
    /\ RefreshOnly

\* lines 396-400 and 409-412: a statement raises; inside the inner try the
\* temp file is removed first; the command exits with code 1
RefreshExcept ==
    /\ \E i \in 1..Len(RefreshSteps) : RefreshSteps[i] = refresh_pc
    /\ temp_path' = IF refresh_pc \in InnerSteps THEN NoFile ELSE temp_path
    /\ refresh_exit' = 1
    /\ refresh_pc' = "exited"
    /\ UNCHANGED << token_file, profile_yaml, refresh_calls, profile_before >>
    /\ RefreshOnly

\* a stored token profile, validated before or not, client secrets imported
\* or not
InitRefresh ==
    /\ IdleScan
    /\ client_secrets \in {NoFile, 1}
    /\ user_token = NoFile
    /\ temp_dir = FALSE
    /\ temp_client_secrets = NoFile
    /\ temp_user_token = NoFile
    /\ setup_pc = "idle"
    /\ setup_result = "unset"
    /\ setup_calls = 0
    /\ files_before = << NoFile, NoFile >>
    /\ profile_store = [n \in ProfileNames |-> "missing"]
    /\ adc_status = "unvalidated"
    /\ active_profile = NoId
    /\ cmd = NoCmd
    /\ exit_code = None
    /\ mcp_result = "unset"
    /\ cmd_count = 0
    /\ NoPair /\ NoCaching /\ NoWhoami /\ NoProcess
    /\ token_file = 1
    /\ profile_yaml \in {NoFile, 1}
    /\ temp_path = NoFile
    /\ refresh_pc = "idle"
    /\ refresh_exit = None
    /\ refresh_calls = 0
    /\ profile_before = << token_file, profile_yaml >>

NextRefresh ==
    \/ RefreshNoSecrets
    \/ RefreshBegin
    \/ RefreshFlow
    \/ RefreshTokenInfo
    \/ RefreshMkstemp
    \/ RefreshDump
    \/ RefreshMove
    \/ RefreshMetadata
    \/ RefreshExcept

SpecRefresh == InitRefresh /\ [][NextRefresh]_vars

\* ------------------------------------------------------------ name cache
\* src/gwsa/sdk/cache.py: one JSON file, read whole and written whole

EntryStates == { "absent", "fresh", "expired" }

\* every cache action leaves the rest of the model alone
CacheOnly ==
    UNCHANGED << creds, profs, pair, refresh, whoami, process, params, pc,
                 identity, api_stats, discovery, selection, members_count,
                 lookback_days, output, walk, reaction_check >>

\* line 66: set_cached_item reads the file into its own dict
SetLoad(p, key) ==
    /\ cache_pc[p] = "idle"
    /\ cache_ops < MaxCacheOps
    /\ cache_ops' = cache_ops + 1
    /\ loaded' = [loaded EXCEPT ![p] = cache_file]
    /\ cache_op' = [cache_op EXCEPT ![p] = [op |-> "set", key |-> key]]
    /\ cache_pc' = [cache_pc EXCEPT ![p] = "loaded"]
    /\ UNCHANGED << cache_file, written >>
    /\ CacheOnly

\* lines 67-71: the entry is put into the dict and the dict is written out
SetSave(p) ==
    /\ cache_pc[p] = "loaded"
    /\ cache_op[p].op = "set"
    /\ cache_file' = [loaded[p] EXCEPT ![cache_op[p].key] = "fresh"]
    /\ written' = written \cup { cache_op[p].key }
    /\ cache_pc' = [cache_pc EXCEPT ![p] = "idle"]
    /\ UNCHANGED << loaded, cache_op, cache_ops >>
    /\ CacheOnly

\* lines 47-62: get_cached_item reads the file; a missing or a fresh entry is
\* answered at once, an expired one is to be deleted
GetLoad(p, key) ==
    /\ cache_pc[p] = "idle"
    /\ cache_ops < MaxCacheOps
    /\ cache_ops' = cache_ops + 1
    /\ loaded' = [loaded EXCEPT ![p] = cache_file]
    /\ cache_op' = [cache_op EXCEPT ![p] = [op |-> "get", key |-> key]]
    /\ cache_pc' = [cache_pc EXCEPT ![p] =
                       IF cache_file[key] = "expired" THEN "loaded" ELSE "idle"]
    /\ UNCHANGED << cache_file, written >>
    /\ CacheOnly

\* lines 57-59: the expired entry is deleted and the dict is written out
GetSave(p) ==
    /\ cache_pc[p] = "loaded"
    /\ cache_op[p].op = "get"
    /\ cache_file' = [loaded[p] EXCEPT ![cache_op[p].key] = "absent"]
    /\ cache_pc' = [cache_pc EXCEPT ![p] = "idle"]
    /\ UNCHANGED << loaded, cache_op, written, cache_ops >>
    /\ CacheOnly

\* a cache file left by earlier runs, two invocations about to use it
InitCache ==
    /\ IdleScan
    /\ client_secrets = NoFile
    /\ user_token = NoFile
    /\ temp_dir = FALSE
    /\ temp_client_secrets = NoFile
    /\ temp_user_token = NoFile
    /\ setup_pc = "idle"
    /\ setup_result = "unset"
    /\ setup_calls = 0
    /\ files_before = << NoFile, NoFile >>
    /\ profile_store = [n \in ProfileNames |-> "missing"]
    /\ adc_status = "unvalidated"
    /\ active_profile = NoId
    /\ cmd = NoCmd
    /\ exit_code = None
    /\ mcp_result = "unset"
    /\ cmd_count = 0
    /\ NoPair /\ NoRefresh /\ NoWhoami /\ NoProcess
    /\ cache_file \in [CacheKeys -> EntryStates]
    /\ loaded = [p \in Invocations |-> [k \in CacheKeys |-> "absent"]]
    /\ cache_op = [p \in Invocations |-> NoCacheOp]
    /\ cache_pc = [p \in Invocations |-> "idle"]
    /\ written = {}
    /\ cache_ops = 0

NextCache ==
    \/ \E p \in Invocations, key \in CacheKeys : SetLoad(p, key)
    \/ \E p \in Invocations : SetSave(p)
    \/ \E p \in Invocations, key \in CacheKeys : GetLoad(p, key)
    \/ \E p \in Invocations : GetSave(p)

SpecCache == InitCache /\ [][NextCache]_vars

\* ------------------------------------------------------- caller identity
\* src/gwsa/sdk/people/service.py get_me, with the profiles cache of cache.py

\* the Google accounts the stored profiles belong to
Accounts == { "al", "bo" }

\* every identity action leaves the rest of the model alone
WhoOnly ==
    UNCHANGED << creds, profs, pair, refresh, caching, process, params, pc,
                 identity, api_stats, discovery, selection, members_count,
                 lookback_days, output, walk, reaction_check >>

\* cache.py lines 47-62 for the key "me": the entry, unless missing or expired
CachedMe == IF me_cache # NoId /\ ~me_expired THEN me_cache ELSE NoId

\* the entry under "me" after the read: an expired one is deleted
AfterRead == IF me_expired THEN NoId ELSE me_cache

\* triage.py line 95: a scan asks get_me for the caller; a cached answer is
\* returned as it is, else people/me is fetched with the credentials of the
\* active profile and cached; a failing fetch gives {}
GetMe ==
    /\ scan_count < MaxScans
    /\ active_profile # NoId
    /\ scan_count' = scan_count + 1
    /\ scan_account' = profile_account[active_profile]
    /\ IF CachedMe # NoId
       THEN /\ scan_me' = CachedMe
            /\ UNCHANGED << me_cache, me_expired >>
       ELSE \E fetched \in BOOLEAN :
              /\ scan_me' = IF fetched THEN profile_account[active_profile]
                            ELSE NoId
              /\ me_cache' = IF fetched THEN profile_account[active_profile]
                             ELSE AfterRead
              /\ me_expired' = FALSE
    /\ UNCHANGED profile_account
    /\ WhoOnly

\* cache.py line 12 and 55: a day passes, the entry is older than CACHE_TTL
MeExpires ==
    /\ me_cache # NoId
    /\ ~me_expired
    /\ me_expired' = TRUE
    /\ UNCHANGED << profile_account, me_cache, scan_me, scan_account,
                    scan_count >>
    /\ WhoOnly

\* validated profiles of one or two accounts, one of them active or none,
\* the cache empty or left by an earlier scan
InitIdentity ==
    /\ IdleScan
    /\ client_secrets = 1
    /\ user_token = NoFile
    /\ temp_dir = FALSE
    /\ temp_client_secrets = NoFile
    /\ temp_user_token = NoFile
    /\ setup_pc = "idle"
    /\ setup_result = "unset"
    /\ setup_calls = 0
    /\ files_before = << NoFile, NoFile >>
    /\ profile_store = [n \in ProfileNames |-> "valid"]
    /\ adc_status = "valid"
    /\ active_profile \in {NoId, ADC_PROFILE_NAME} \cup ProfileNames
    /\ cmd = NoCmd
    /\ exit_code = None
    /\ mcp_result = "unset"
    /\ cmd_count = 0
    /\ NoPair /\ NoRefresh /\ NoCaching /\ NoProcess
    /\ profile_account \in [ProfileNames \cup {ADC_PROFILE_NAME} -> Accounts]
    /\ me_cache = IF active_profile = NoId THEN NoId
                  ELSE profile_account[active_profile]
    /\ me_expired \in BOOLEAN
    /\ scan_me = NoId
    /\ scan_account = NoId
    /\ scan_count = 0

NextIdentity ==
    \/ GetMe
    \/ MeExpires
    \/ UseCmd
    \/ SwitchProfile

SpecIdentity == InitIdentity /\ [][NextIdentity]_vars

\* ----------------------------------------------------------------- claims

GivenTiers == IF tiers_arg.is_none THEN DefaultTiers ELSE tiers_arg.list

Fits(t, m) == t.max_members = None \/ t.max_members >= m

KeyBefore(a, b) ==
    a.max_members # None /\ (b.max_members = None \/ a.max_members < b.max_members)

\* the tier the claim names: it fits, no fitting tier has a smaller bound,
\* and among fitting tiers of the same bound it is the caller's first
FirstFitting(g, m) ==
    { i \in 1..Len(g) :
        /\ Fits(g[i], m)
        /\ \A j \in 1..Len(g) :
             Fits(g[j], m) =>
                \/ KeyBefore(g[i], g[j])
                \/ (g[i].max_members = g[j].max_members /\ i <= j) }

ExpectedLookback(g, m) ==
    IF FirstFitting(g, m) = {} THEN 0
    ELSE g[CHOOSE i \in FirstFitting(g, m) : TRUE].lookback_days

Filtered == all_spaces[fi]

IsCandidate(space) ==
    \E i \in 1..Len(candidates) : candidates[i].space.name = space.name

\* C1: the lookback_days assigned to a space is that of the first tier, in
\* ascending max_members order with None last, whose max_members is None or
\* >= member_count, and 0 when no tier matches, whatever the order in which
\* the caller gave the tiers.
C1_TierResolution ==
    (pc = "filter" /\ fi > 0) =>
        lookback_days = ExpectedLookback(GivenTiers, MembersCount(Filtered))

\* tiers given out of order, and the tier that decided is not the caller's first
C1_Witness ==
    /\ pc = "filter" /\ fi = 1
    /\ ~tiers_arg.is_none
    /\ Len(tiers_arg.list) = 3
    /\ tiers_arg.list[1].max_members = None
    /\ lookback_days = 14

ScenarioTiers == << Tier(2, 14), Tier(10, 5), Tier(None, 1) >>

\* C2: a discovered space is left out of the candidates iff its resolved
\* lookback_days <= 0 or its last_active_time <= now - lookback_days; with the
\* tiers [{2,14},{10,5},{None,1}] a 3-member space active 3 days ago is a
\* candidate and a 2-member DM active 20 days ago is not.
C2_Exclusion ==
    (pc = "filter" /\ fi > 0) =>
        LET days == ExpectedLookback(GivenTiers, MembersCount(Filtered))
            active == ParseApiTime(Filtered.lastActiveTime)
        IN  /\ ~IsCandidate(Filtered) <=> (days <= 0 \/ active <= Now - days)
            /\ ( /\ GivenTiers = ScenarioTiers
                 /\ MembersCount(Filtered) = 3
                 /\ active = Now - 3 ) => IsCandidate(Filtered)
            /\ ( /\ GivenTiers = ScenarioTiers
                 /\ Filtered.spaceType = "DIRECT_MESSAGE"
                 /\ MembersCount(Filtered) = 2
                 /\ active = Now - 20 ) => ~IsCandidate(Filtered)

\* the 3-member space of the scenario has become a candidate
C2_Witness ==
    /\ pc = "filter" /\ fi = 1
    /\ GivenTiers = ScenarioTiers
    /\ MembersCount(Filtered) = 3
    /\ Filtered.lastActiveTime = Now - 3
    /\ IsCandidate(Filtered)

Unprocessed == Len(space_stats) < Len(candidates)

\* C3: exit_reason is "space_limit_reached" iff the scan stopped with
\* candidates left because the number of spaces scanned equals space_limit,
\* "message_limit_reached" iff it stopped with candidates left because of the
\* message budget (the space limit not being the reason), and "completed"
\* iff every candidate was processed.
C3_ExitReason ==
    pc = "done" =>
        /\ exit_reason = "space_limit_reached"
             <=> (Unprocessed /\ Len(space_stats) = limit)
        /\ exit_reason = "message_limit_reached"
             <=> (Unprocessed /\ Len(space_stats) # limit
                    /\ total_messages_scanned >= message_limit)
        /\ exit_reason = "completed" <=> ~Unprocessed

\* one space scanned, one left, both budgets used up: the space limit is reported
C3_Witness ==
    /\ pc = "done"
    /\ exit_reason = "space_limit_reached"
    /\ Len(space_stats) = 1
    /\ Len(candidates) = 2
    /\ message_limit > 0
    /\ total_messages_scanned >= message_limit

\* C4: in every ScanResult the number of spaces scanned is at most
\* space_limit and total_messages_scanned is at most message_scan_limit.
C4_BudgetsNeverExceeded ==
    pc = "done" =>
        /\ Len(space_stats) <= limit
        /\ total_messages_scanned <= message_limit

MeKnown == my_id # NoId

Reactions == api_stats["_list_reactions"]

\* C5 as stated: with unanswered_only, a walk that reaches a message of mine
\* goes no further in that space.
C5_HaltsAtAnyOwnMessage ==
    [][ (unanswered_only /\ pc = "msg" /\ MeKnown /\ msg.sender = my_id)
          => pc' # "walk" ]_vars

\* C5 amended: with unanswered_only, a walk that reaches a message of mine
\* inside the lookback window leaves the space at once, and after any message
\* of mine no reaction lookup is issued and no item is emitted in that space.
C5_HaltsAtOwnMessageInWindow ==
    [][ /\ (unanswered_only /\ pc = "msg" /\ MeKnown /\ msg.sender = my_id /\ InRange)
            => (pc' = "loop" /\ results' = results /\ Reactions' = Reactions)
        /\ (unanswered_only /\ pc \in {"walk", "msg"} /\ me_at # 0)
            => (results' = results /\ Reactions' = Reactions) ]_vars

\* the walk stands at a message of mine inside the window, an older one behind it
C5_Witness ==
    /\ unanswered_only
    /\ pc = "msg"
    /\ MeKnown
    /\ msg.sender = my_id
    /\ InRange
    /\ mi < n_messages

\* C6: no two entries of mentions have the same space_id.
C6_OneItemPerSpace ==
    \A i, j \in 1..Len(results) :
        i # j => results[i].space_id # results[j].space_id

\* an item was emitted for the newest of two fetched messages
C6_Witness ==
    \E i \in 1..Len(space_stats), k \in 1..Len(results) :
        /\ results[k].space_id = space_stats[i].id
        /\ space_stats[i].messages_scanned = 2
        /\ space_stats[i].messages_in_range = 1
        /\ space_stats[i].unanswered_mentions = 1

ListedMembers(name) == MembersCount(remote[name])

\* C7: a candidate with member_count <= implicit_mention_threshold gets a
\* single ListMessages call with page size 1 and at most one message is
\* fetched and walked; a larger one gets a single call with page size 20.
C7_FetchWindow ==
    /\ \A k \in 1..Len(msg_calls) :
         /\ msg_calls[k].pageSize =
              IF ListedMembers(msg_calls[k].space) <= implicit_mention_threshold
              THEN 1 ELSE 20
         /\ \A l \in 1..Len(msg_calls) :
              msg_calls[l].space = msg_calls[k].space => l = k
    /\ \A i \in 1..Len(space_stats) :
         space_stats[i].members <= implicit_mention_threshold
            => space_stats[i].messages_scanned <= 1
    /\ (pc \in {"walk", "msg"} /\ IsImplicit) => (n_messages <= 1 /\ mi <= 1)
    /\ api_stats["_list_space_messages"] = Len(msg_calls)

\* a small and a large space were both fetched
C7_Witness ==
    /\ Len(msg_calls) = 2
    /\ msg_calls[1].pageSize = 1
    /\ msg_calls[2].pageSize = 20

StatAfter == IF pc = "walk" THEN current_space_stat ELSE Last(space_stats)

\* C8: a message not authored by me, inside the window, with no newer
\* message of mine, is classified actionable iff the space is implicit, or a
\* USER_MENTION annotation targets my_id, or its text contains "@" +
\* my_first_name; an implicit space whose latest message is mine adds nothing
\* to mentions.
C8_Classification ==
    [][ /\ (pc = "msg" /\ msg.sender # my_id /\ msg.createTime >= Cutoff /\ me_at = 0)
            => ( StatAfter'.mentions_found = current_space_stat.mentions_found + 1
                 <=> \/ members_count <= implicit_mention_threshold
                     \/ (MeKnown /\ msg.mention = my_id)
                     \/ (my_display_name # << >>
                         /\ Contains(msg.text, << "@" >> \o my_display_name)) )
        /\ (pc = "msg" /\ members_count <= implicit_mention_threshold
               /\ mi = 1 /\ msg.sender = my_id)
            => (results' = results /\ pc' = "loop") ]_vars

\* an item was emitted in a large space on the "@name" text alone
C8_Witness ==
    /\ pc = "loop"
    /\ Len(results) > 0
    /\ Last(results).type = "Explicit"
    /\ Last(results).members > implicit_mention_threshold
    /\ Last(results).text = << "h", "@", "A", "l" >>
    /\ Last(space_stats).mentions_found = 1
    /\ Last(space_stats).messages_in_range = 2

\* C9 as stated: an item of a space with member_count <=
\* implicit_mention_threshold has type "Implicit", any other has type
\* "Explicit" and reason "Explicit mention".
C9_TypeImplicitOrExplicit ==
    \A k \in 1..Len(results) :
        IF results[k].members <= implicit_mention_threshold
        THEN results[k].type = "Implicit"
        ELSE results[k].type = "Explicit" /\ results[k].reason = "Explicit mention"

\* C9 amended: an item of a space with member_count <=
\* implicit_mention_threshold has type "Inferred" and reason "Unreplied
\* message", any other has type "Explicit" and reason "Explicit mention".
C9_TypeInferredOrExplicit ==
    \A k \in 1..Len(results) :
        IF results[k].members <= implicit_mention_threshold
        THEN results[k].type = "Inferred" /\ results[k].reason = "Unreplied message"
        ELSE results[k].type = "Explicit" /\ results[k].reason = "Explicit mention"

\* one item of each kind
C9_Witness ==
    /\ Len(results) = 2
    /\ results[1].type = "Inferred"
    /\ results[2].type = "Explicit"

RECURSIVE SumScanned(_)
SumScanned(stats) ==
    IF stats = << >> THEN 0 ELSE Head(stats).messages_scanned + SumScanned(Tail(stats))

\* C10: a failure while listing or analysing the messages of a candidate is
\* caught: the candidate gets its one ScanStats entry with the counts so far,
\* no exception leaves the scan, later candidates are processed subject to
\* the budgets, and every processed candidate has exactly one entry.
C10_PerSpaceIsolation ==
    /\ Len(space_stats) = IF pc \in {"walk", "msg"} THEN ci - 1 ELSE ci
    /\ \A i \in 1..Len(space_stats) : space_stats[i].id = candidates[i].space.name
    /\ \A w \in 1..Len(warnings) :
         \E i \in 1..Len(space_stats) : space_stats[i].id = warnings[w]
    /\ pc = "raised" => (msg_calls = << >> /\ candidates = << >>)
    /\ pc \in {"loop", "done"} => total_messages_scanned = SumScanned(space_stats)
    /\ (pc = "done" /\ Unprocessed) => exit_reason # "completed"

\* the first space failed after an item was confirmed, the second one was
\* still scanned
C10_Witness ==
    /\ pc = "done"
    /\ Len(space_stats) = 2
    /\ Len(warnings) = 1
    /\ warnings[1] = space_stats[1].id
    /\ space_stats[1].unanswered_mentions = 1
    /\ space_stats[2].messages_scanned > 0

\* C11: when the reaction lookup for a message classified actionable fails,
\* the classification is kept: the message counts as unanswered and is
\* emitted as an item unless the sender-name step raises, the walk of the
\* space ends as after any emitted item, and the scan goes on.
C11_ReactionFailureKeepsItem ==
    [][ reaction_check' = "failed"
          => /\ pc = "msg" /\ unanswered_only /\ Found # NoItem
             /\ Reactions' = Reactions + 1
             /\ pc' = "loop"
             /\ Last(space_stats').unanswered_mentions
                  = current_space_stat.unanswered_mentions + 1
             /\ Last(space_stats').mentions_found
                  = current_space_stat.mentions_found + 1
             /\ warnings' = warnings
                  => /\ Len(results') = Len(results) + 1
                     /\ Last(results').type = Found.type
                     /\ Last(results').space_id = current_space_stat.id
                     /\ Last(results').time = msg.createTime ]_vars

\* the lookup failed and the item is the last one emitted
C11_Witness ==
    /\ reaction_check = "failed"
    /\ pc = "loop"
    /\ warnings = << >>
    /\ Len(results) = 1
    /\ Last(results).space_id = Last(space_stats).id
    /\ Last(space_stats).unanswered_mentions = 1

\* C12: when identity resolution fails, no exception leaves the scan, and
\* every candidate with member_count <= implicit_mention_threshold is
\* skipped: no ListMessages call for it, a ScanStats entry with zero counts,
\* no item.
C12_IdentityFailureSkipsImplicit ==
    /\ pc # "raised"
    /\ (pc \in {"loop", "walk", "msg", "done"} /\ ~MeKnown)
         => /\ \A k \in 1..Len(msg_calls) :
                 ListedMembers(msg_calls[k].space) > implicit_mention_threshold
            /\ \A i \in 1..Len(space_stats) :
                 space_stats[i].members <= implicit_mention_threshold
                   => /\ space_stats[i].messages_scanned = 0
                      /\ space_stats[i].unanswered_mentions = 0
            /\ \A k \in 1..Len(results) :
                 results[k].members > implicit_mention_threshold

KeyOf(c) == << c.type_score, c.members >>

KeyLess(c, d) ==
    \/ c.type_score < d.type_score
    \/ (c.type_score = d.type_score /\ c.members < d.members)

\* C13: the candidates are scanned with every type_score 0 candidate before
\* every type_score 1 candidate before every type_score 2 candidate, equal
\* type_scores in ascending member_count; the order is a function of the
\* discovered spaces: candidates of equal key keep their listing order, and
\* the candidates are exactly the listed spaces that passed the filter.
C13_CandidateOrder ==
    (pc = "loop") =>
        /\ \A i, j \in 1..Len(candidates) :
             i < j => \/ KeyLess(candidates[i], candidates[j])
                      \/ /\ KeyOf(candidates[i]) = KeyOf(candidates[j])
                         /\ candidates[i].space.name < candidates[j].space.name
        /\ \A n \in 1..Len(all_spaces) :
             \E i \in 1..Len(candidates) : candidates[i].space = all_spaces[n]

\* the sort moved a two-person DM in front of a named space listed before it
C13_Witness ==
    /\ pc = "loop"
    /\ Len(candidates) = 2
    /\ candidates[1].space.name = 2
    /\ candidates[1].type_score = 0
    /\ candidates[2].type_score = 2

\* C14: a candidate's type_score is 0 for a two-person DM, 1 for a group
\* DM or group chat (more than 2 members, typed DIRECT_MESSAGE or
\* GROUP_CHAT), and 2 for a named Space.
C14_TypeScore ==
    \A i \in 1..Len(candidates) :
        LET c == candidates[i]
        IN  /\ (c.space.spaceType = "DIRECT_MESSAGE" /\ c.members <= 2)
                 => c.type_score = 0
            /\ (c.space.spaceType \in {"DIRECT_MESSAGE", "GROUP_CHAT"} /\ c.members > 2)
                 => c.type_score = 1
            /\ c.space.spaceType = "SPACE" => c.type_score = 2

\* C15: the number of discovered spaces that enter candidate selection
\* (total_count) never exceeds discovery_limit, whatever the pages of
\* ListSpaces are.
C15_DiscoveryCap ==
    pc \in {"filter", "loop"} => Len(all_spaces) <= discovery_limit

\* C16: name resolution never raises and never drops an item: every
\* message confirmed as unanswered is emitted, its sender being the display
\* name, else the People name, else the email, else "Unknown", and no space
\* fails because of the sender name.
C16_NameResolutionNeverDrops ==
    /\ \A i \in 1..Len(space_stats) :
         space_stats[i].unanswered_mentions > 0
           => \E k \in 1..Len(results) : results[k].space_id = space_stats[i].id
    /\ \A k \in 1..Len(results) :
         results[k].sender \in {"Bob", "Bobby", "bob@x", "Unknown"}

\* C20: an item is emitted only for a message inside the lookback window,
\* not authored by me, classified actionable and (with unanswered_only)
\* without a reaction of mine, and it is the first such message of the
\* newest-first walk; a message older than the cutoff is skipped and the
\* walk goes on with the next message.
C20_ItemIsNewestActionable ==
    [][ /\ Len(results') > Len(results)
            => /\ pc = "msg"
               /\ ParseApiTime(msg.createTime) >= Now - current_space_stat.lookback_days
               /\ msg.sender # my_id
               /\ Found # NoItem
               /\ reaction_check' # "mine"
               /\ unanswered_only => reaction_check' \in {"none", "failed"}
               /\ current_space_stat.unanswered_mentions = 0
               /\ msg.createTime <= prev_time
               /\ results' = Append(results, Last(results'))
               /\ Last(results').time = msg.createTime
               /\ Last(results').space_id = current_space_stat.id
        /\ (pc = "msg" /\ ~InRange)
            => /\ results' = results
               /\ mi < n_messages => (pc' = "walk" /\ mi' = mi) ]_vars

\* the newest mention carried a reaction of mine, the item is for the older one
C20_Witness ==
    /\ pc = "loop"
    /\ Len(results) = 1
    /\ Len(space_stats) = 1
    /\ results[1].space_id = space_stats[1].id
    /\ space_stats[1].messages_scanned = 2
    /\ space_stats[1].mentions_found = 2
    /\ space_stats[1].unanswered_mentions = 1
    /\ Reactions = 2

SetupNew == << NewCreds(setup_calls), NewCreds(setup_calls) >>

\* C17: _atomic_client_creds_setup is all-or-nothing: on True both
\* client_secrets.json and user_token.json hold the new credentials, on False
\* the config directory holds exactly the files it held before the call and
\* no staging files; never one old and one new file.
C17_AllOrNothing ==
    setup_pc = "returned" =>
        /\ ~temp_dir /\ temp_client_secrets = NoFile /\ temp_user_token = NoFile
        /\ setup_result = "True" => << client_secrets, user_token >> = SetupNew
        /\ setup_result = "False" => << client_secrets, user_token >> = files_before
        /\ << client_secrets, user_token >> \in {SetupNew, files_before}

\* the rejections the profile commands are documented to make
DocumentedRejection(c) ==
    \/ c.op = "add" /\ ( \/ c.name = ADC_PROFILE_NAME
                         \/ ProfileExists(c.name)
                         \/ client_secrets = NoFile )
    \/ c.op = "rename" /\ ( \/ c.name = ADC_PROFILE_NAME
                            \/ c.new_name = ADC_PROFILE_NAME
                            \/ ~ProfileExists(c.name)
                            \/ ProfileExists(c.new_name) )
    \/ c.op = "delete" /\ (c.name = ADC_PROFILE_NAME \/ ~ProfileExists(c.name))
    \/ c.op = "use" /\ ~ProfileExists(c.name)

\* C18: every rejected profile command (add of 'adc', of an existing name or
\* without client secrets; rename from or to 'adc', of a missing source or to
\* an existing target; delete of 'adc' or of a missing profile; use of a
\* missing profile) exits with code 1 and leaves the stored profiles and
\* active_profile unchanged.
C18_RejectedCommandChangesNothing ==
    [][ (cmd_count' # cmd_count /\ DocumentedRejection(cmd')) =>
            /\ exit_code' = 1
            /\ profile_store' = profile_store
            /\ active_profile' = active_profile ]_vars

\* a rename onto an existing profile has been refused while the source is
\* the active profile
C18_Witness ==
    /\ cmd.op = "rename"
    /\ cmd.name \in ProfileNames /\ cmd.new_name \in ProfileNames
    /\ cmd.name # cmd.new_name
    /\ profile_store[cmd.name] # "missing"
    /\ profile_store[cmd.new_name] # "missing"
    /\ active_profile = cmd.name
    /\ exit_code = 1

SwitchOps == { "use", "switch_profile" }

\* C19: no switching operation (profiles use with or without --no-recheck,
\* MCP switch_profile) makes a profile active unless it exists and
\* get_profile_status reports it valid at that moment; a missing, stale,
\* unvalidated or error profile is rejected and active_profile is unchanged.
C19_OnlyValidProfileActivated ==
    [][ (cmd_count' # cmd_count /\ cmd'.op \in SwitchOps
            /\ ~(GetProfileStatus(cmd'.name).exists
                    /\ GetProfileStatus(cmd'.name).valid)) =>
            /\ active_profile' = active_profile
            /\ exit_code' # 0
            /\ mcp_result' # "success" ]_vars

\* C24: scanned_count of the ScanResult is the number of spaces the scan
\* actually scanned, the length of source.spaces (total_spaces_scanned).
C24_ScannedCountIsSpacesScanned ==
    pc = "done" =>
        /\ ScanResult.scanned_count = Len(ScanResult.source.spaces)
        /\ ScanResult.scanned_count = ScanResult.source.total_spaces_scanned

\* C29: in every ScanStats entry of a ScanResult 0 <= unanswered_mentions <=
\* mentions_found <= messages_in_range <= messages_scanned and
\* unanswered_mentions <= 1, and total_messages_scanned is the sum of
\* messages_scanned over source.spaces.
C29_StatsOrdered ==
    pc = "done" =>
        /\ \A i \in 1..Len(ScanResult.source.spaces) :
              LET st == ScanResult.source.spaces[i]
              IN  /\ 0 <= st.unanswered_mentions
                  /\ st.unanswered_mentions <= st.mentions_found
                  /\ st.mentions_found <= st.messages_in_range
                  /\ st.messages_in_range <= st.messages_scanned
                  /\ st.unanswered_mentions <= 1
        /\ ScanResult.source.total_messages_scanned
              = SumScanned(ScanResult.source.spaces)

\* a finished scan of two spaces, one of them with two messages in range of
\* which one was a mention that my reaction had answered
C29_Witness ==
    /\ pc = "done"
    /\ Len(space_stats) = 2
    /\ \E i \in 1..2 :
          /\ space_stats[i].messages_scanned = 2
          /\ space_stats[i].messages_in_range = 2
          /\ space_stats[i].mentions_found = 1
          /\ space_stats[i].unanswered_mentions = 0

\* C30: every scan terminates and returns a ScanResult, whatever the Chat API
\* answers: discovery stops at the last page, at the first ListSpaces failure
\* or at discovery_limit, each candidate is visited at most once, and a used
\* up budget ends the scan normally with its exit_reason.
C30_ScanReturns == <>(pc = "done")

\* C28: for identical API responses and configuration, the spaces for which
\* the scan with unanswered_only emits an item are a subset of those for
\* which the scan without it emits one, and both scans visit the same spaces
\* with the same messages_scanned counts and the same exit_reason.
C28_UnansweredOnlyNarrows ==
    pc = "compared" =>
        /\ scan_unanswered.emitted \subseteq scan_all.emitted
        /\ scan_unanswered.visited = scan_all.visited
        /\ scan_unanswered.exit_reason = scan_all.exit_reason

Zero == [m \in ApiMethods |-> 0]

\* the calls one step of the scan issues, from what the step did
Issued(method) ==
    CASE method = "_list_spaces" -> IF pc = "discover" THEN 1 ELSE 0
      [] method = "_list_space_messages" -> Len(msg_calls') - Len(msg_calls)
      [] method = "_list_reactions" -> IF reaction_check' # "unset" THEN 1 ELSE 0
      [] OTHER -> 0

\* C23: the api_stats of a scan hold exactly the calls issued during that
\* scan, failed ones included: the counters are reset at scan start, so no
\* call made before the scan started appears in them.
C23_StatsOfThisScanOnly ==
    [][ /\ pc = "start" =>
              api_stats' \in {Zero, Count(Zero, "_fetch_person_from_api")}
        /\ pc # "start" =>
              /\ \A m \in ApiMethods \ {"_fetch_person_from_api"} :
                    api_stats'[m] = api_stats[m] + Issued(m)
              /\ api_stats'["_fetch_person_from_api"]
                    - api_stats["_fetch_person_from_api"]
                    \in (IF pc = "msg" /\ Found # NoItem THEN {0, 1} ELSE {0}) ]_vars

\* a finished scan that listed spaces and messages, in a process whose
\* counters held two calls of every method when the scan was called
C23_Witness ==
    /\ pc = "done"
    /\ \A m \in ApiMethods : stats_before[m] = 2
    /\ api_stats["_list_spaces"] = 1
    /\ api_stats["_list_space_messages"] = 1
    /\ api_stats["_list_reactions"] = 1
    /\ ScanResult.api_stats = api_stats

\* the folder of the renamed profile is under the new name and no longer
\* under the old one
FolderRenamed ==
    /\ cmd.op = "rename"
    /\ cmd.name \in ProfileNames /\ cmd.new_name \in ProfileNames
    /\ profile_store[cmd.name] = "missing"
    /\ profile_store[cmd.new_name] # "missing"

ActiveExists ==
    \/ active_profile \in {NoId, ADC_PROFILE_NAME}
    \/ (active_profile \in ProfileNames /\ profile_store[active_profile] # "missing")

\* a command ended on an I/O failure: the folder move, the config write or
\* the rollback of rename_cmd, reported with exit code 1
IOFailed == exit_code = 1 /\ cmd.op = "rename"

\* C27: after any sequence of profile add, use / switch_profile, delete and
\* rename operations that complete without I/O failure, active_profile is
\* unset, 'adc' or the name of an existing token profile; deleting the active
\* profile clears active_profile.
C27_ActiveProfileExists ==
    [][ /\ (ActiveExists /\ ~IOFailed') => ActiveExists'
        /\ (cmd_count' # cmd_count /\ cmd'.op = "delete" /\ exit_code' = 0
               /\ active_profile = cmd'.name
               /\ profile_store' # profile_store)
             => active_profile' = NoId ]_vars

\* the active profile has been deleted and no profile is active
C27_Witness ==
    /\ cmd.op = "delete"
    /\ exit_code = 0
    /\ cmd.name \in ProfileNames
    /\ profile_store[cmd.name] = "missing"
    /\ active_profile = NoId
    /\ cmd_count = MaxCmds

\* C25: a 'profiles refresh' of a token profile that fails at any step (OAuth
\* flow, tokeninfo, missing email, writing the token, updating the metadata)
\* leaves user_token.json and profile.yaml exactly as before the command and
\* no temporary file in the profile directory.
C25_FailedRefreshChangesNothing ==
    (refresh_pc = "exited" /\ refresh_exit = 1) =>
        /\ << token_file, profile_yaml >> = profile_before
        /\ temp_path = NoFile

\* C22: when two invocations interleave set_cached_item and get_cached_item
\* on one cache file, every entry one of them wrote is still in the file,
\* unexpired, once both are done: no update is lost.
C22_NoLostUpdate ==
    (\A p \in Invocations : cache_pc[p] = "idle") =>
        \A key \in written : cache_file[key] = "fresh"

\* C21: the identity a scan uses is that of the account of the profile active
\* when the scan runs (or none, when the lookup failed): after a switch to a
\* profile of another account no scan uses the previous account's identity.
C21_IdentityOfActiveProfile ==
    scan_count > 0 => scan_me \in { NoId, scan_account }

====
